---- MODULE Spec2Model ----
(***************************************************************************)
(* multiplex: a supervisor (Runner) that launches child processes, gates   *)
(* their launch on dependencies and delays, reads their stdout/stderr in   *)
(* one reader thread per child, pumps redirected output into consumers'    *)
(* stdin, and terminates children in two phases.                           *)
(*                                                                         *)
(* Threads of the supervisor: the main thread (cli / API caller, which is  *)
(* also the thread Python runs signal handlers in), one reader thread per  *)
(* launched child (Runner.reader_threaded) and one pump thread per         *)
(* consumer with redirects (redirect_manager).  The operating system and   *)
(* the children are the environment: a child may write a chunk, close one  *)
(* of its output streams, or exit.                                         *)
(***************************************************************************)
EXTENDS Naturals, Integers, Sequences, FiniteSets, TLC

VARIABLES
    cmds,             \* the parsed commands handed to Runner.run, in order
    commands,         \* Runner.commands: key -> index of (Command, Thread)
    process_started,  \* Runner.process_started: key -> event is set
    process_outputs,  \* Runner.process_outputs: key -> stream -> list of chunks
    key,              \* Command.key of the i-th run() call ("" before the call)
    proc,             \* OS process of child i: "none", "alive", "dead"
    wfd,              \* output streams child i still holds open (1 stdout, 2 stderr)
    thread,           \* reader thread of child i: "none","reading","dead"
    channels,         \* reader_threaded's channels of child i: streams not at EOF
    pc,               \* main thread: where it is in cli() / Runner.run
    cur,              \* main thread: index of the command run() is working on
    depi,             \* main thread: index of the dependency being waited for
    gate,             \* per child: the gate steps run() performed, in order
    pipe,             \* chunks child i wrote on stream s that the reader has not read
    nout,             \* number of chunks child i has written on stream s
    seen,             \* chunks the reader of child i has read on stream s, in order
    pump,             \* redirect_manager thread of consumer i: where it is
    psrc,             \* redirect_manager of i: index of the source being visited
    pdata,            \* redirect_manager of i: its local `data`
    stdin,            \* chunks written to the stdin pipe of consumer i, in order
    stop,             \* redirect_stop_event of consumer i is set
    prog,             \* what the main thread does after the run() calls
    term,             \* the terminate() call of thread t (0: main, i: reader of i)
    sent,             \* signals the supervisor delivered to the live process of child i
    signum,           \* the signal onSignal is handling, "none" without one
    jel,              \* ticks the join() of onSignal has waited
    writer,           \* Formatter.writer is set: the emitted lines are written
    fmt,              \* the writes thread t still has to make in Formatter.format
    sink,             \* the byte sink: the writes made since the last complete line
    ev,               \* per child: the kinds of events emitted, in order of first emission
    pid,              \* Command.pid of child i (0: None)
    pgid,             \* Command.pgid of child i (0: None)
    nextpid,          \* the OS: where its search for a free pid starts
    status,           \* the values child i's end event was emitted with, in order
    clock,            \* seconds since startup, counted up to the -t value
    held,             \* history: the children that were at their gate when a
                      \* global termination was initiated
    cmdline,          \* the command line given to parse
    parsed,           \* the call of parse that was made and what it returned
    joined,           \* the last call of join that returned: what it returned,
                      \* and history of the state it returned in
    callbacks,        \* the event kinds child i has a callback registered for
    disp,             \* history: the dispatches of child i's events, each with
                      \* whether a callback was registered and whether the
                      \* formatter was called
    sub,              \* the process child i forked: its state ("none", "alive"
                      \* with child i as its parent, "orphan", "gone") and pid
    children,         \* Command._children of child i
    probed,           \* history: the pids Proc.children reported for child i
                      \* during the current terminate/propagateSignal call of thread t
    signalled,        \* history: the pids of Command.children of child i that
                      \* the current call of thread t signalled
    arrived,          \* history: the chunks read on the streams some command
                      \* redirects from, in the order the readers read them
    fed               \* history: the chunks written to the stdin pipe of
                      \* consumer i, each with the source it was taken from

runnerVars == <<commands, process_started, process_outputs, key>>
osVars     == <<proc, wfd>>
readerVars == <<thread, channels>>
mainVars   == <<pc, cur, depi, gate>>
pipeVars   == <<pipe, nout, seen>>
pumpVars   == <<pump, psrc, pdata, stdin, stop>>
termVars   == <<prog, term, sent, signum, jel>>
fmtVars    == <<writer, fmt, sink, ev, disp>>
pidVars    == <<pid, pgid, nextpid>>
descVars   == <<sub, children, probed, signalled>>
feedVars   == <<arrived, fed>>
vars == <<cmds, runnerVars, osVars, readerVars, mainVars, pipeVars, pumpVars, termVars, fmtVars,
          pidVars, status, clock, held, cmdline, parsed, joined, callbacks, descVars, feedVars>>

----------------------------------------------------------------------------
(* Bounds and inputs *)

\* longest dependency list of a command
MaxDeps == 2

\* Keys of the batch, in submission order; "Z" is never submitted.
KeyNames == <<"A", "B", "C">>
N == Len(KeyNames)
Kids == 1..N
Streams == {1, 2}

\* Dependency(key, wait_for_start, delays), multiplex.py 942-947
DepRecs == [key : {"A", "C", "Z"}, wait_for_start : BOOLEAN, delays : {<<>>, <<1>>}]

DepLists == UNION {[1..n -> DepRecs] : n \in 0..MaxDeps}

\* a command with no prefix: no start delay, no dependencies, no redirects
\* and no actions; its program exists and, as a process, writes nothing,
\* ignores no signal, forks no process and exits with status 0; the caller
\* of run() passes no callback (on).  forks lists, for each process the
\* program forks, the signals that process ignores.  cat: the program runs
\* until it has read its stdin to the end.
Plain(k) == [key |-> k, start_delay |-> 0, dependencies |-> <<>>, redirects |-> <<>>,
             actions |-> {}, out |-> [s \in Streams |-> 0], ignores |-> {}, exit |-> 0,
             missing |-> FALSE, on |-> {}, forks |-> <<>>, cat |-> FALSE]

\* A and C are plain; B takes any start delay and dependency list.
DepBatches ==
    {<<Plain("A"),
       [Plain("B") EXCEPT !.start_delay = sd, !.dependencies = dl],
       Plain("C")>> : sd \in {0, 1}, dl \in DepLists}

----------------------------------------------------------------------------
(* Helpers *)

\* d[k] = v on a dict
Put(d, k, v) == [x \in (DOMAIN d) \cup {k} |-> IF x = k THEN v ELSE d[x]]

\* Runner.getActiveCommands: the entries whose reader thread is alive, of
\* the given table or, when that one is empty (`commands or self.commands`),
\* of self.commands
IsAlive(i) == thread[i] \in {"reading", "in_end"}
getActiveCommands(sel) ==
    LET given == IF DOMAIN sel = {} THEN commands ELSE sel
    IN {k \in DOMAIN given : IsAlive(given[k])}

----------------------------------------------------------------------------
\* no terminate() call in progress
NoCall == [ph |-> "none", graceful |-> TRUE, sel |-> {}, el |-> 0, res |-> FALSE, only |-> {}]

InitProgram(batches, progs, writers) ==
    /\ cmds \in batches
    /\ commands = <<>>
    /\ process_started = <<>>
    /\ process_outputs = <<>>
    /\ key = [i \in Kids |-> ""]
    /\ proc = [i \in Kids |-> "none"]
    /\ wfd = [i \in Kids |-> {}]
    /\ thread = [i \in Kids |-> "none"]
    /\ channels = [i \in Kids |-> {}]
    /\ pc = "run"
    /\ cur = 1
    /\ depi = 0
    /\ gate = [i \in Kids |-> <<>>]
    /\ pipe = [i \in Kids |-> [s \in Streams |-> <<>>]]
    /\ nout = [i \in Kids |-> [s \in Streams |-> 0]]
    /\ seen = [i \in Kids |-> [s \in Streams |-> <<>>]]
    /\ pump = [i \in Kids |-> "none"]
    /\ psrc = [i \in Kids |-> 0]
    /\ pdata = [i \in Kids |-> <<>>]
    /\ stdin = [i \in Kids |-> <<>>]
    /\ stop = [i \in Kids |-> FALSE]
    /\ prog \in progs
    /\ term = [t \in 0..N |-> NoCall]
    /\ sent = [i \in Kids |-> <<>>]
    /\ signum = "none"
    /\ jel = 0
    /\ writer \in writers
    /\ fmt = [t \in 0..N |-> <<>>]
    /\ sink = <<>>
    /\ ev = [i \in Kids |-> <<>>]
    /\ disp = [i \in Kids |-> {}]
    /\ pid = [i \in Kids |-> 0]
    /\ pgid = [i \in Kids |-> 0]
    /\ nextpid = 1
    /\ status = [i \in Kids |-> <<>>]
    /\ clock = 0
    /\ held = {}
    /\ sub = [i \in Kids |-> [st |-> "none", pid |-> 0]]
    /\ children = [i \in Kids |-> {}]
    /\ probed = [t \in 0..N |-> [i \in Kids |-> {}]]
    /\ signalled = [t \in 0..N |-> [i \in Kids |-> {}]]
    /\ arrived = <<>>
    /\ fed = [i \in Kids |-> <<>>]

\* the state after construction, no call of parse made
InitWith(batches, progs, writers) ==
    /\ InitProgram(batches, progs, writers)
    /\ cmdline = <<>>
    /\ parsed = [call |-> "none"]
    /\ joined = [call |-> "none"]
    /\ callbacks = [i \in Kids |-> {}]

Init == InitWith(DepBatches, {"cli"}, {FALSE})

----------------------------------------------------------------------------
(* Formatter.format and the event dispatch (doStart, doOut, doErr, doEnd) *)

\* format() 427-432: the writer calls that make up one line, in order
Parts == <<"timestamp", "stream", "key", "sep", "line", "nl">>

\* the line format() emits for event kind of child i (n: the chunk, 0 if none)
Line(i, kind, n) == [k |-> i, kind |-> kind, n |-> n]
Pieces(line) == [x \in DOMAIN Parts |-> [line |-> line, part |-> Parts[x]]]

\* thread t is not inside format()
Idle(t) == fmt[t] = <<>>

EventKinds == {"start", "out", "err", "end"}

\* a dispatch, as history
Dispatch(i, kind, formatter) ==
    [disp EXCEPT ![i] = @ \cup {[kind |-> kind, callback |-> kind \in callbacks[i],
                                 formatter |-> formatter]}]

\* the formatter called for the event of child i: with a writer format() has
\* its line to write
Format(t, i, kind, n) ==
    /\ fmt' = [fmt EXCEPT ![t] = Pieces(Line(i, kind, n))]
    /\ ev' = [ev EXCEPT ![i] = IF \E x \in DOMAIN @ : @[x] = kind THEN @ ELSE Append(@, kind)]
    /\ disp' = Dispatch(i, kind, TRUE)

\* the dispatch with the formatter called whatever the callbacks
Emit_WhateverCallbacks(t, i, kind, n) ==
    IF writer THEN Format(t, i, kind, n) ELSE UNCHANGED <<fmt, ev, disp>>

\* doStart / doOut / doErr / doEnd 485-519 called by thread t for child i:
\* with no callback registered for the kind of event the formatter is called,
\* otherwise the callbacks are (those of silent() return at once).  The
\* formatter is looked at only when there is a writer.
Emit(t, i, kind, n) ==
    IF writer
       THEN IF kind \notin callbacks[i]
               THEN Format(t, i, kind, n)
               ELSE disp' = Dispatch(i, kind, FALSE) /\ UNCHANGED <<fmt, ev>>
       ELSE UNCHANGED <<fmt, ev, disp>>

\* every write of the sequence belongs to the same line
OneLine(w) == \A x \in DOMAIN w, y \in DOMAIN w : w[x].line = w[y].line

\* format() 427-432: one self.writer(...) call of thread t, os.write(1, data).
\* The sink keeps the writes since the last complete line; once the writes
\* of two lines are mixed in it, it is kept as it is.
FmtWrite(t) ==
    /\ ~Idle(t)
    /\ fmt' = [fmt EXCEPT ![t] = Tail(@)]
    /\ LET w == Append(sink, Head(fmt[t])) IN
         sink' = IF ~OneLine(sink) THEN sink
                 ELSE IF OneLine(w) /\ Head(fmt[t]).part = "nl" THEN <<>>
                 ELSE w
    /\ UNCHANGED <<cmds, runnerVars, osVars, readerVars, mainVars, pipeVars, pumpVars,
                   termVars, writer, ev, disp, pidVars, status, clock, held, cmdline, parsed, joined, callbacks, descVars, feedVars>>

----------------------------------------------------------------------------
(* Runner.run, a step at a time; all of it runs in the caller's thread *)

\* AfterDep without the start delay after the dependencies
AfterDep_NoStartDelay(n) ==
    IF n < Len(cmds[cur].dependencies) THEN "dep_wait" ELSE "popen"

\* where run() goes once dependency n of the current command is dealt with
AfterDep(n) ==
    IF n < Len(cmds[cur].dependencies) THEN "dep_wait"
    ELSE IF cmds[cur].start_delay > 0 THEN "start_delay"
    ELSE "popen"

DecimalDigits == <<"0", "1", "2", "3", "4", "5", "6", "7", "8", "9">>
RECURSIVE str(_)
\* str(n) of a natural number: its decimal digits
str(n) == IF n < 10 THEN DecimalDigits[n + 1] ELSE str(n \div 10) \o DecimalDigits[(n % 10) + 1]

\* run() 554: key = key or str(len(self.commands)); "" is the absent key
KeyOf(k) == IF k = "" THEN str(Cardinality(DOMAIN commands)) ELSE k

\* run() 554-612: the key, the Command, the started event, the output buffers,
\* and for a command with redirects the stdin pipe and the redirect_manager
\* thread, which starts before the gate
\* Command.silent 276-285: a swallowing callback for every kind of event
\* that has none
silent(registered) == registered \cup EventKinds

RunBegin ==
    /\ pc = "run"
    /\ Idle(0)
    /\ cur <= Len(cmds)
    /\ key' = [key EXCEPT ![cur] = KeyOf(cmds[cur].key)]
    /\ process_started' = Put(process_started, KeyOf(cmds[cur].key), FALSE)
    /\ process_outputs' = Put(process_outputs, KeyOf(cmds[cur].key), [s \in Streams |-> <<>>])
    /\ pump' = [pump EXCEPT ![cur] = IF cmds[cur].redirects # <<>> THEN "check" ELSE @]
    /\ depi' = IF Len(cmds[cur].dependencies) > 0 THEN 1 ELSE 0
    /\ callbacks' = [callbacks EXCEPT ![cur] = IF "silent" \in cmds[cur].actions
                                                  THEN silent(@) ELSE @]
    /\ pc' = AfterDep(0)
    /\ UNCHANGED <<cmds, commands, osVars, readerVars, cur, gate, pipeVars,
                   psrc, pdata, stdin, stop, termVars, fmtVars, pidVars, status, clock, held, cmdline, parsed, joined, descVars, feedVars>>

\* _waitForProcess waiting for the start event instead of the reader thread
waitForProcess_Started(p) ==
    p \in DOMAIN process_started => process_started[p]

\* _waitForProcess 525-532: returns at once for a key not in commands,
\* otherwise when the reader thread of that key has finished (thread.join())
waitForProcess(p) ==
    p \in DOMAIN commands => thread[commands[p]] = "dead"

\* _waitForProcessStart 534-539: returns at once for a key not in
\* process_started, otherwise when its event is set
waitForProcessStart(p) ==
    p \in DOMAIN process_started => process_started[p]

\* the dict the wait on a dependency looks its key up in has that key
Known(dep) ==
    IF dep.wait_for_start THEN dep.key \in DOMAIN process_started
                          ELSE dep.key \in DOMAIN commands

\* run() 614-630: the command whose run() is at its gate, in a dependency
\* wait or in a sleep before the spawn
AtGate == IF pc \in {"dep_wait", "dep_delay", "start_delay"} THEN {cur} ELSE {}

\* run() 616-622: the wait on dependency depi
DepWait ==
    /\ pc = "dep_wait"
    /\ LET dep == cmds[cur].dependencies[depi] IN
        /\ IF dep.wait_for_start THEN waitForProcessStart(dep.key)
                                 ELSE waitForProcess(dep.key)
        /\ gate' = [gate EXCEPT ![cur] =
                        Append(@, [step |-> "dep", n |-> depi, known |-> Known(dep)])]
        /\ IF dep.delays # <<>>
              THEN pc' = "dep_delay" /\ depi' = depi
              ELSE pc' = AfterDep(depi) /\ depi' = depi + 1
    /\ UNCHANGED <<cmds, runnerVars, osVars, readerVars, cur, pipeVars, pumpVars, termVars, fmtVars, pidVars, status, clock, held, cmdline, parsed, joined, callbacks, descVars, feedVars>>

\* run() 624-626: the sleeps of dependency depi's delays
DepDelay ==
    /\ pc = "dep_delay"
    /\ gate' = [gate EXCEPT ![cur] = Append(@, [step |-> "dep_delay", n |-> depi, known |-> TRUE])]
    /\ pc' = AfterDep(depi)
    /\ depi' = depi + 1
    /\ UNCHANGED <<cmds, runnerVars, osVars, readerVars, cur, pipeVars, pumpVars, termVars, fmtVars, pidVars, status, clock, held, cmdline, parsed, joined, callbacks, descVars, feedVars>>

\* run() 628-630: the sleep of start_delay
StartDelay ==
    /\ pc = "start_delay"
    /\ gate' = [gate EXCEPT ![cur] = Append(@, [step |-> "start_delay", n |-> 0, known |-> TRUE])]
    /\ pc' = "popen"
    /\ UNCHANGED <<cmds, runnerVars, osVars, readerVars, cur, depi, pipeVars, pumpVars, termVars, fmtVars, pidVars, status, clock, held, cmdline, parsed, joined, callbacks, descVars, feedVars>>

\* the pid space of the OS
MaxPid == 3
PidSpace == 1..MaxPid

\* a process a child forked is running
Running(i) == sub[i].st \in {"alive", "orphan"}

\* Proc.exists 131-137: a process with this pid is running or not yet reaped
Proc_exists(p) ==
    \/ \E i \in Kids : proc[i] \in {"alive", "dead"} /\ pid[i] = p
    \/ \E i \in Kids : Running(i) /\ sub[i].pid = p

\* the pids the OS cannot give: those of the processes that are running or
\* not yet reaped, and those that still name the process group of one
PidsInUse == {p \in PidSpace : Proc_exists(p) \/ \E i \in Kids : Running(i) /\ pid[i] = p}

\* the pid the OS gives the next process: the first free one from nextpid
\* on, wrapping around at the end of the pid space
FreePid ==
    LET at(d) == ((nextpid - 1 + d) % MaxPid) + 1
        d0 == CHOOSE d \in 0..(MaxPid - 1) :
                  at(d) \notin PidsInUse /\ \A e \in 0..(d - 1) : at(e) \in PidsInUse
    IN at(d0)

\* the process group of a child that inherits the group of the supervisor
NewSession_Inherit(p) == 0

\* run() 641-644: with start_new_session=True the child leads a session and
\* a process group of its own, pgid = pid
NewSession(p) == p

\* run() 635-647: subprocess.Popen creates the child, pid/pgid,
\* process_started[key].set()
Spawn ==
    /\ proc' = [proc EXCEPT ![cur] = "alive"]
    /\ wfd' = [wfd EXCEPT ![cur] = Streams]
    /\ process_started' = [process_started EXCEPT ![key[cur]] = TRUE]
    /\ gate' = [gate EXCEPT ![cur] = Append(@, [step |-> "spawn", n |-> 0, known |-> TRUE])]
    /\ PidsInUse # PidSpace
    /\ pid' = [pid EXCEPT ![cur] = FreePid]
    /\ pgid' = [pgid EXCEPT ![cur] = NewSession(FreePid)]
    /\ nextpid' = (FreePid % MaxPid) + 1
    /\ pc' = "thread"
    /\ UNCHANGED <<cmds, commands, process_outputs, key, readerVars, cur, depi, pipeVars, pumpVars,
                   termVars, fmtVars, status, clock, held, cmdline, parsed, joined, callbacks, descVars, feedVars>>

\* run() 635-642: subprocess.Popen raises (the program does not exist); run()
\* has no handler, the exception goes up to the caller of run() and, in
\* cli(), out of the main thread
SpawnFails ==
    /\ pc' = "raised"
    /\ UNCHANGED <<cmds, runnerVars, osVars, readerVars, cur, depi, gate, pipeVars, pumpVars,
                   termVars, fmtVars, pidVars, status, clock, held, cmdline, parsed, joined, callbacks, descVars, feedVars>>

\* Popen held back until every earlier child has ended
Popen_AfterEarlierEnded ==
    /\ pc = "popen"
    /\ \A j \in 1..(cur - 1) : thread[j] = "dead"
    /\ IF cmds[cur].missing THEN SpawnFails ELSE Spawn

\* run() 635-647: subprocess.Popen and what follows it
Popen ==
    /\ pc = "popen"
    /\ IF cmds[cur].missing THEN SpawnFails ELSE Spawn

\* run() 657-668: the reader thread is started and the command registered
ThreadStart ==
    /\ pc = "thread"
    /\ thread' = [thread EXCEPT ![cur] = "reading"]
    /\ channels' = [channels EXCEPT ![cur] = Streams]
    /\ commands' = Put(commands, key[cur], cur)
    /\ pc' = "do_start"
    /\ UNCHANGED <<cmds, process_started, process_outputs, key, osVars, cur, depi, gate, pipeVars, pumpVars, termVars, fmtVars, pidVars, status, clock, held, cmdline, parsed, joined, callbacks, descVars, feedVars>>

\* run() 669-670: doStart, return; the caller (cli() 1340-1352) goes on to the
\* next command, then to join(), with -t to join(timeout=), or, as an API
\* caller, to terminate()
\* where the caller goes once run() has returned for the current command
AfterRun ==
    IF cur < Len(cmds) THEN "run"
    ELSE IF prog \in {"cli", "api_join"} THEN "join"
    ELSE IF prog = "cli_timeout" THEN "tjoin" ELSE "api_wait"

DoStart ==
    /\ pc = "do_start"
    /\ IF cmds[cur].on = {}
          THEN cur' = cur + 1 /\ pc' = AfterRun
          ELSE cur' = cur /\ pc' = "register"
    /\ depi' = 0
    /\ Emit(0, cur, "start", 0)
    /\ UNCHANGED <<cmds, runnerVars, osVars, readerVars, gate, pipeVars, pumpVars, termVars,
                   writer, sink, pidVars, status, clock, held, cmdline, parsed, joined, callbacks, descVars, feedVars>>

\* the module's run() 905-913: after Runner.run has returned, the callbacks
\* the caller passed are appended to the command's
Register ==
    /\ pc = "register"
    /\ callbacks' = [callbacks EXCEPT ![cur] = @ \cup cmds[cur].on]
    /\ cur' = cur + 1
    /\ pc' = AfterRun
    /\ UNCHANGED <<cmds, runnerVars, osVars, readerVars, depi, gate, pipeVars, pumpVars, termVars,
                   fmtVars, pidVars, status, clock, held, cmdline, parsed, joined, descVars, feedVars>>

\* join() 755: the keys of the commands join returns, those whose reader
\* thread is alive; with it, as history, the keys of the commands that have
\* not ended, their process running or their reader thread alive, and the
\* seconds the call has waited
JoinReturn(call) ==
    [call |-> call,
     active |-> getActiveCommands(commands),
     running |-> {k \in DOMAIN commands :
                     proc[commands[k]] = "alive" \/ IsAlive(commands[k])},
     elapsed |-> jel]

\* cli() 1358, Runner.join 713-755 without a timeout: loops until no
\* command's reader thread is alive
CliJoin ==
    /\ pc = "join"
    /\ Idle(0)
    /\ getActiveCommands(commands) = {}
    /\ pc' = "done"
    /\ joined' = JoinReturn("join")
    /\ UNCHANGED <<cmds, runnerVars, osVars, readerVars, cur, depi, gate, pipeVars, pumpVars, termVars, fmtVars, pidVars, status, clock, held, cmdline, parsed, callbacks, descVars, feedVars>>

----------------------------------------------------------------------------
(* The children (environment) *)

\* a child exits, one that reads its stdin to the end once every write end of
\* its stdin pipe is closed: the OS closes the streams it still held, and a
\* process it forked that is still running gets another parent
ChildExit(i) ==
    /\ proc[i] = "alive"
    /\ cmds[i].cat => pump[i] = "closed"
    /\ proc' = [proc EXCEPT ![i] = "dead"]
    /\ wfd' = [wfd EXCEPT ![i] = {}]
    /\ sub' = [sub EXCEPT ![i].st = IF @ = "alive" THEN "orphan" ELSE @]
    /\ UNCHANGED <<cmds, runnerVars, readerVars, mainVars, pipeVars, pumpVars, termVars, fmtVars, pidVars, status, clock, held, cmdline, parsed, joined, callbacks, children, probed, signalled, feedVars>>

\* a child forks a process, which stays in the process group of the child
\* and runs with its stdout and stderr redirected away from the child's pipes
Fork(i) ==
    /\ proc[i] = "alive"
    /\ cmds[i].forks # <<>>
    /\ sub[i].st = "none"
    /\ PidsInUse # PidSpace
    /\ sub' = [sub EXCEPT ![i] = [st |-> "alive", pid |-> FreePid]]
    /\ nextpid' = (FreePid % MaxPid) + 1
    /\ UNCHANGED <<cmds, runnerVars, osVars, readerVars, mainVars, pipeVars, pumpVars, termVars, fmtVars, pid, pgid, status, clock, held, cmdline, parsed, joined, callbacks, children, probed, signalled, feedVars>>

\* the process a child forked exits and is reaped by its parent
SubExit(i) ==
    /\ Running(i)
    /\ sub' = [sub EXCEPT ![i].st = "gone"]
    /\ UNCHANGED <<cmds, runnerVars, osVars, readerVars, mainVars, pipeVars, pumpVars, termVars, fmtVars, pidVars, status, clock, held, cmdline, parsed, joined, callbacks, children, probed, signalled, feedVars>>

\* a child closes one of its output streams and keeps running
ChildClose(i, s) ==
    /\ proc[i] = "alive"
    /\ s \in wfd[i]
    /\ wfd' = [wfd EXCEPT ![i] = @ \ {s}]
    /\ UNCHANGED <<cmds, runnerVars, proc, readerVars, mainVars, pipeVars, pumpVars, termVars, fmtVars, pidVars, status, clock, held, cmdline, parsed, joined, callbacks, descVars, feedVars>>

\* a child writes its next chunk on stream s
ChildWrite(i, s) ==
    /\ proc[i] = "alive"
    /\ s \in wfd[i]
    /\ nout[i][s] < cmds[i].out[s]
    /\ nout' = [nout EXCEPT ![i][s] = @ + 1]
    /\ pipe' = [pipe EXCEPT ![i][s] = Append(@, nout[i][s] + 1)]
    /\ UNCHANGED <<cmds, runnerVars, osVars, readerVars, mainVars, seen, pumpVars, termVars, fmtVars, pidVars, status, clock, held, cmdline, parsed, joined, callbacks, descVars, feedVars>>

----------------------------------------------------------------------------
(* Runner.reader_threaded *)

\* chunk n of stream s of the command with key k
Chunk(k, s, n) == [key |-> k, stream |-> s, n |-> n]

\* some command of the batch lists stream s of the command with key k among
\* its redirect sources
Redirected(k, s) ==
    \E j \in 1..Len(cmds) : \E x \in DOMAIN cmds[j].redirects :
        cmds[j].redirects[x] = [key |-> k, stream |-> s]

\* 693-705: os.read returns a chunk of stream s; it is appended to the
\* capture buffer of the command's key, then handed to doOut / doErr
ReaderRead(i, s) ==
    /\ thread[i] = "reading"
    /\ Idle(i)
    /\ s \in channels[i]
    /\ pipe[i][s] # <<>>
    /\ pipe' = [pipe EXCEPT ![i][s] = Tail(@)]
    /\ seen' = [seen EXCEPT ![i][s] = Append(@, Head(pipe[i][s]))]
    /\ process_outputs' =
          IF key[i] \in DOMAIN process_outputs
             THEN [process_outputs EXCEPT ![key[i]][s] = Append(@, Head(pipe[i][s]))]
             ELSE process_outputs
    /\ Emit(i, i, IF s = 1 THEN "out" ELSE "err", Head(pipe[i][s]))
    /\ arrived' = IF Redirected(key[i], s)
                     THEN Append(arrived, Chunk(key[i], s, Head(pipe[i][s])))
                     ELSE arrived
    /\ UNCHANGED <<cmds, commands, process_started, key, osVars, readerVars, mainVars,
                   nout, pumpVars, termVars, writer, sink, pidVars, status, clock, held, cmdline, parsed, joined, callbacks, descVars, fed>>

\* ReaderEOF dropping every channel at the EOF of one
ReaderEOF_DropAll(i, s) ==
    /\ thread[i] = "reading"
    /\ Idle(i)
    /\ s \in channels[i]
    /\ s \notin wfd[i]
    /\ pipe[i][s] = <<>>
    /\ channels' = [channels EXCEPT ![i] = {}]
    /\ UNCHANGED <<cmds, runnerVars, osVars, thread, mainVars, pipeVars, pumpVars, termVars, fmtVars, pidVars, status, clock, held, cmdline, parsed, joined, callbacks, descVars, feedVars>>

\* 693-709: select reports stream s readable, os.read returns b"": EOF
ReaderEOF(i, s) ==
    /\ thread[i] = "reading"
    /\ Idle(i)
    /\ s \in channels[i]
    /\ s \notin wfd[i]
    /\ pipe[i][s] = <<>>
    /\ channels' = [channels EXCEPT ![i] = @ \ {s}]
    /\ UNCHANGED <<cmds, runnerVars, osVars, thread, mainVars, pipeVars, pumpVars, termVars, fmtVars, pidVars, status, clock, held, cmdline, parsed, joined, callbacks, descVars, feedVars>>

\* 693-694: select reports stream s readable and os.read raises OSError;
\* nothing in reader_threaded or in the thread's target catches it, the
\* exception ends the thread
ReaderError(i, s) ==
    /\ thread[i] = "reading"
    /\ Idle(i)
    /\ s \in channels[i]
    /\ thread' = [thread EXCEPT ![i] = "dead"]
    /\ UNCHANGED <<cmds, runnerVars, osVars, channels, mainVars, pipeVars, pumpVars, termVars, fmtVars, pidVars, status, clock, held, cmdline, parsed, joined, callbacks, descVars, feedVars>>

\* process.returncode in the reader thread: Popen sets it in poll() and
\* wait(), which the supervisor never calls on the Popen object
returncode(i) == "None"

\* 710-711, onEnd 649-653, doEnd 509-519: no channel left; the end callbacks
\* run, doEnd sets the command's redirect_stop_event and emits the end event;
\* with the "end" action onEnd then calls self.terminate() in this thread.
\* A thread with no line to write and no terminate() to call ends at once.
ReaderEnd(i) ==
    /\ thread[i] = "reading"
    /\ Idle(i)
    /\ channels[i] = {}
    /\ stop' = [stop EXCEPT ![i] = IF cmds[i].redirects # <<>> THEN TRUE ELSE @]
    /\ Emit(i, i, "end", 0)
    /\ status' = [status EXCEPT ![i] =
                    Append(@, IF returncode(i) = "None" THEN 0 ELSE returncode(i))]
    /\ term' = IF "end" \in cmds[i].actions
                 THEN [term EXCEPT ![i] = [NoCall EXCEPT !.ph = "begin"]]
                 ELSE term
    /\ held' = IF "end" \in cmds[i].actions THEN held \cup AtGate ELSE held
    /\ thread' = [thread EXCEPT ![i] =
                    IF "end" \in cmds[i].actions \/ writer THEN "in_end" ELSE "dead"]
    /\ UNCHANGED <<cmds, runnerVars, osVars, channels, mainVars, pipeVars,
                   pump, psrc, pdata, stdin, prog, sent, signum, jel, writer, sink, pidVars, clock, cmdline, parsed, joined, callbacks, descVars, feedVars>>

----------------------------------------------------------------------------
Next ==
    \/ RunBegin
    \/ DepWait
    \/ DepDelay
    \/ StartDelay
    \/ Popen
    \/ ThreadStart
    \/ DoStart
    \/ CliJoin
    \/ \E i \in Kids : ChildExit(i)
    \/ \E i \in Kids, s \in Streams : ReaderEOF(i, s)
    \/ \E i \in Kids : ReaderEnd(i)

Spec == Init /\ [][Next]_vars

----------------------------------------------------------------------------
(* redirect_manager, the pump thread of a consumer (run() 576-605) *)

Sources(i) == cmds[i].redirects

\* 578: while not redirect_stop_event.is_set(); 601-605: finally, the write
\* end of the stdin pipe is closed
PumpCheck(i) ==
    /\ pump[i] = "check"
    /\ IF stop[i] THEN pump' = [pump EXCEPT ![i] = "closed"] /\ psrc' = psrc
                  ELSE pump' = [pump EXCEPT ![i] = "source"] /\ psrc' = [psrc EXCEPT ![i] = 1]
    /\ UNCHANGED <<cmds, runnerVars, osVars, readerVars, mainVars, pipeVars,
                   pdata, stdin, stop, termVars, fmtVars, pidVars, status, clock, held, cmdline, parsed, joined, callbacks, descVars, feedVars>>

\* 580-587: the next source of the list; a non-empty buffer is joined into data
PumpSource(i) ==
    /\ pump[i] = "source"
    /\ psrc[i] <= Len(Sources(i))
    /\ LET src == Sources(i)[psrc[i]] IN
         IF src.key \in DOMAIN process_outputs /\ process_outputs[src.key][src.stream] # <<>>
            THEN /\ pdata' = [pdata EXCEPT ![i] = process_outputs[src.key][src.stream]]
                 /\ pump' = [pump EXCEPT ![i] = "clear"]
                 /\ psrc' = psrc
            ELSE /\ psrc' = [psrc EXCEPT ![i] = @ + 1]
                 /\ UNCHANGED <<pump, pdata>>
    /\ UNCHANGED <<cmds, runnerVars, osVars, readerVars, mainVars, pipeVars, stdin, stop, termVars, fmtVars, pidVars, status, clock, held, cmdline, parsed, joined, callbacks, descVars, feedVars>>

\* 588-594: output_buffer.clear(), then os.write(stdin_write_fd, data)
PumpClearWrite(i) ==
    /\ pump[i] = "clear"
    /\ LET src == Sources(i)[psrc[i]] IN
         process_outputs' = [process_outputs EXCEPT ![src.key][src.stream] = <<>>]
    /\ stdin' = [stdin EXCEPT ![i] = @ \o pdata[i]]
    /\ LET src == Sources(i)[psrc[i]] IN
         fed' = [fed EXCEPT ![i] =
                    @ \o [x \in DOMAIN pdata[i] |-> Chunk(src.key, src.stream, pdata[i][x])]]
    /\ pdata' = [pdata EXCEPT ![i] = <<>>]
    /\ psrc' = [psrc EXCEPT ![i] = @ + 1]
    /\ pump' = [pump EXCEPT ![i] = "source"]
    /\ UNCHANGED <<cmds, commands, process_started, key, osVars, readerVars, mainVars,
                   pipeVars, stop, termVars, fmtVars, pidVars, status, clock, held, cmdline, parsed, joined, callbacks, descVars, arrived>>

\* 596-597: the list is done, time.sleep(0.001), back to the loop test
PumpSleep(i) ==
    /\ pump[i] = "source"
    /\ psrc[i] > Len(Sources(i))
    /\ pump' = [pump EXCEPT ![i] = "check"]
    /\ UNCHANGED <<cmds, runnerVars, osVars, readerVars, mainVars, pipeVars,
                   psrc, pdata, stdin, stop, termVars, fmtVars, pidVars, status, clock, held, cmdline, parsed, joined, callbacks, descVars, feedVars>>

\* most chunks the source of a redirect writes on its stdout
MaxChunks == 3

\* multiplex "A=<writes MaxChunks chunks>" "B<A=cat"
RedirectBatches ==
    {<<[Plain("A") EXCEPT !.out = [s \in Streams |-> IF s = 1 THEN MaxChunks ELSE 0]],
       [Plain("B") EXCEPT !.redirects = <<[key |-> "A", stream |-> 1]>>],
       Plain("C")>>}

InitRedirect == InitWith(RedirectBatches, {"cli"}, {FALSE})

NextRedirect ==
    \/ RunBegin
    \/ Popen
    \/ ThreadStart
    \/ DoStart
    \/ CliJoin
    \/ \E i \in Kids : ChildExit(i)
    \/ \E i \in Kids, s \in Streams : ChildWrite(i, s)
    \/ \E i \in Kids, s \in Streams : ReaderRead(i, s)
    \/ \E i \in Kids, s \in Streams : ReaderEOF(i, s)
    \/ \E i \in Kids : ReaderEnd(i)
    \/ \E i \in Kids : PumpCheck(i)
    \/ \E i \in Kids : PumpSource(i)
    \/ \E i \in Kids : PumpClearWrite(i)
    \/ \E i \in Kids : PumpSleep(i)

SpecRedirect == InitRedirect /\ [][NextRedirect]_vars

----------------------------------------------------------------------------
(* Runner.terminate, in whichever thread calls it.  Time is counted in      *)
(* seconds: a tick stands for the polls terminate() makes in one second     *)
(* (a time.sleep(0.1) between two polls), the last of which is the step     *)
(* that follows the tick.                                                   *)

\* Runner.graceful_timeout and Runner.force_timeout, in seconds
graceful_timeout == 5
force_timeout == 2
GraceTicks == graceful_timeout
ForceTicks == force_timeout

\* the signals registerSignals installs onSignal for
SIGNAMES == {"SIGINT", "SIGTERM", "SIGHUP"}

Threads == 0..N
Restrict(d, ks) == [k \in ks |-> d[k]]
Targets(sel) == {sel[k] : k \in DOMAIN sel}

\* a fresh call of terminate(graceful=g)
Call(g) == [NoCall EXCEPT !.ph = "begin", !.graceful = g]
Return(t, r) == [term EXCEPT ![t].ph = "ret", ![t].res = r]
Sleeping(t) == term[t].ph \in {"grace_sleep", "force_sleep"}

\* Proc.children(pid) 80-97: the pids of the processes whose parent is pid
Proc_children(p) ==
    {sub[j].pid : j \in {k \in Kids : proc[k] = "alive" /\ pid[k] = p /\ sub[k].st = "alive"}}

\* Command.children 253-257, without the pids kept in _children
Command_children_Probed(i) == IF pid[i] # 0 THEN Proc_children(pid[i]) ELSE {}

\* Command.children 253-257: what Proc.children reports is added to
\* _children, which is returned
Command_children(i) ==
    IF pid[i] # 0 THEN children[i] \cup Proc_children(pid[i]) ELSE children[i]

\* terminate 789-797, 814-822, propagateSignal 860-871, by thread t: for
\* each command in targets, Proc.exists(pid) and Proc.kill(pid, sig) for its
\* pid and the pids of Command.children.  Proc.kill signals the process
\* group pid leads, then the process: a live process that does not ignore sig
\* dies of it, and SIGKILL cannot be ignored; the OS closes the streams of a
\* process that dies.  first: this is the first round of the call.
Kill(t, targets, sig, first) ==
    LET all_pids(i) == {pid[i]} \cup Command_children(i)
        reached == {p \in UNION {all_pids(i) : i \in targets} : p # 0 /\ Proc_exists(p)}
        hit(i) == proc[i] = "alive" /\ pid[i] \in reached
        dies(i) == hit(i) /\ sig \notin cmds[i].ignores
        subhit(i) == /\ Running(i)
                     /\ \/ sub[i].pid \in reached
                        \/ proc[i] \in {"alive", "dead"} /\ pid[i] \in reached
        before(h, i) == IF first THEN {} ELSE h[t][i]
    IN
    /\ proc' = [i \in Kids |-> IF dies(i) THEN "dead" ELSE proc[i]]
    /\ wfd' = [i \in Kids |-> IF dies(i) THEN {} ELSE wfd[i]]
    /\ sent' = [i \in Kids |-> IF hit(i) THEN Append(sent[i], sig) ELSE sent[i]]
    /\ sub' = [i \in Kids |->
                 IF subhit(i) /\ sig \notin cmds[i].forks[1]
                    THEN [sub[i] EXCEPT !.st = "gone"]
                    ELSE IF sub[i].st = "alive" /\ dies(i)
                            THEN [sub[i] EXCEPT !.st = "orphan"]
                            ELSE sub[i]]
    /\ children' = [i \in Kids |-> IF i \in targets THEN Command_children(i) ELSE children[i]]
    /\ probed' = [probed EXCEPT ![t] =
                     [i \in Kids |-> IF i \in targets
                                        THEN before(probed, i) \cup Command_children_Probed(i)
                                        ELSE before(probed, i)]]
    /\ signalled' = [signalled EXCEPT ![t] =
                     [i \in Kids |-> IF i \in targets
                                        THEN before(signalled, i)
                                             \cup {p \in Command_children(i) : Proc_exists(p)}
                                        ELSE before(signalled, i)]]

\* a call that signals nothing at its start
NoKill(t) ==
    /\ probed' = [probed EXCEPT ![t] = [i \in Kids |-> {}]]
    /\ signalled' = [signalled EXCEPT ![t] = [i \in Kids |-> {}]]
    /\ UNCHANGED <<proc, wfd, sent, sub, children, feedVars>>

\* terminate() 774-781: the entries of self.commands whose Command object is
\* one of the given ones (Command has no __eq__: identity), or all of
\* self.commands when no command was given
Selection(t) ==
    IF term[t].only = {} THEN commands
    ELSE Restrict(commands, {k \in DOMAIN commands : commands[k] \in term[t].only})

\* terminate() 770-798: the selection is Selection(t); nothing selected
\* returns True; graceful sends SIGTERM to every selected command's pid
TermBegin(t) ==
    /\ term[t].ph = "begin"
    /\ Idle(t)
    /\ IF DOMAIN Selection(t) = {}
          THEN term' = Return(t, TRUE) /\ NoKill(t)
          ELSE IF term[t].graceful
          THEN /\ Kill(t, Targets(Selection(t)), "SIGTERM", TRUE)
               /\ term' = [term EXCEPT ![t].ph = "grace", ![t].sel = Selection(t), ![t].el = 0]
          ELSE /\ term' = [term EXCEPT ![t].ph = "force", ![t].sel = Selection(t), ![t].el = 0]
               /\ NoKill(t)
    /\ UNCHANGED <<cmds, runnerVars, readerVars, mainVars, pipeVars, pumpVars,
                   prog, signum, jel, fmtVars, pidVars, status, clock, held, cmdline, parsed, joined, callbacks, feedVars>>

\* TermGrace leaving the graceful wait at its first poll
TermGrace_NoWait(t) ==
    /\ term[t].ph = "grace"
    /\ IF term[t].el < 0
          THEN LET active == getActiveCommands(term[t].sel) IN
               IF active = {}
                  THEN term' = Return(t, TRUE)
                  ELSE term' = [term EXCEPT ![t].ph = "grace_sleep",
                                            ![t].sel = Restrict(@, active)]
          ELSE term' = [term EXCEPT ![t].ph = "force", ![t].el = 0]
    /\ UNCHANGED <<cmds, runnerVars, osVars, readerVars, mainVars, pipeVars, pumpVars,
                   prog, sent, signum, jel, fmtVars, pidVars, status, clock, held, cmdline, parsed, joined, callbacks, descVars, feedVars>>

\* terminate() 800-810: one turn of the graceful wait loop, and what follows
\* the loop: True with nothing active left, else on to the force phase
TermGrace(t) ==
    /\ term[t].ph = "grace"
    /\ IF term[t].el < GraceTicks
          THEN LET active == getActiveCommands(term[t].sel) IN
               IF active = {}
                  THEN term' = Return(t, TRUE)
                  ELSE term' = [term EXCEPT ![t].ph = "grace_sleep",
                                            ![t].sel = Restrict(@, active)]
          ELSE term' = [term EXCEPT ![t].ph = "force", ![t].el = 0]
    /\ UNCHANGED <<cmds, runnerVars, osVars, readerVars, mainVars, pipeVars, pumpVars,
                   prog, sent, signum, jel, fmtVars, pidVars, status, clock, held, cmdline, parsed, joined, callbacks, descVars, feedVars>>

\* terminate() 814-835: one turn of the force loop: SIGKILL to every selected
\* pid, False once force_timeout has elapsed, else the selection is refreshed
TermForce(t) ==
    /\ term[t].ph = "force"
    /\ Kill(t, Targets(term[t].sel), "SIGKILL", FALSE)
    /\ IF term[t].el >= ForceTicks
          THEN term' = Return(t, FALSE)
          ELSE LET active == getActiveCommands(term[t].sel) IN
               IF active = {}
                  THEN term' = Return(t, TRUE)
                  ELSE term' = [term EXCEPT ![t].ph = "force_sleep",
                                            ![t].sel = Restrict(@, active)]
    /\ UNCHANGED <<cmds, runnerVars, readerVars, mainVars, pipeVars, pumpVars,
                   prog, signum, jel, fmtVars, pidVars, status, clock, held, cmdline, parsed, joined, callbacks, feedVars>>

\* onEnd 651-653, reader_threaded 711: the end line is written and, with
\* the "end" action, terminate() has returned: the thread ends
ReaderEndReturn(i) ==
    /\ thread[i] = "in_end"
    /\ Idle(i)
    /\ "end" \in cmds[i].actions => term[i].ph = "ret"
    /\ thread' = [thread EXCEPT ![i] = "dead"]
    /\ UNCHANGED <<cmds, runnerVars, osVars, channels, mainVars, pipeVars, pumpVars, termVars, fmtVars, pidVars, status, clock, held, cmdline, parsed, joined, callbacks, descVars, feedVars>>

----------------------------------------------------------------------------
(* The main thread after the run() calls: an API caller that terminates,    *)
(* and onSignal, which Python runs in the main thread wherever it is        *)

\* an API caller, some time after its run() calls: runner.terminate(graceful=)
ApiTerminate ==
    /\ pc = "api_wait"
    /\ pc' = "api_term"
    /\ term' = [term EXCEPT ![0] = Call(prog = "api_graceful")]
    /\ UNCHANGED <<cmds, runnerVars, osVars, readerVars, cur, depi, gate, pipeVars, pumpVars,
                   prog, sent, signum, jel, fmtVars, pidVars, status, clock, held, cmdline, parsed, joined, callbacks, descVars, feedVars>>

\* an API caller, some time after its run() calls: runner.terminate(c1, ...)
\* with the Command objects its run() calls returned
ApiTerminateSome(S) ==
    /\ pc = "api_wait"
    /\ S # {}
    /\ pc' = "api_term"
    /\ term' = [term EXCEPT ![0] = [Call(TRUE) EXCEPT !.only = S]]
    /\ UNCHANGED <<cmds, runnerVars, osVars, readerVars, cur, depi, gate, pipeVars, pumpVars,
                   prog, sent, signum, jel, fmtVars, pidVars, status, clock, held, cmdline, parsed, joined, callbacks, descVars, feedVars>>

\* terminate() returns to the API caller
ApiReturn ==
    /\ pc = "api_term"
    /\ term[0].ph = "ret"
    /\ pc' = "api_done"
    /\ UNCHANGED <<cmds, runnerVars, osVars, readerVars, cur, depi, gate, pipeVars, pumpVars,
                   termVars, fmtVars, pidVars, status, clock, held, cmdline, parsed, joined, callbacks, descVars, feedVars>>

\* the supervisor receives sg: onSignal 873-876 takes over the main thread,
\* which never comes back to what it was doing (the handler ends in sys.exit)
Signal(sg) ==
    /\ prog = "cli"
    /\ signum = "none"
    /\ pc # "done"
    /\ signum' = sg
    /\ pc' = "sig_propagate"
    /\ held' = held \cup AtGate
    /\ UNCHANGED <<cmds, runnerVars, osVars, readerVars, cur, depi, gate, pipeVars, pumpVars,
                   prog, term, sent, jel, fmtVars, pidVars, status, clock, cmdline, parsed, joined, callbacks, descVars, feedVars>>

\* propagateSignal 854-871: the signal is sent to the pid of every active
\* command; onSignal 882: terminate(graceful=True) is called
SigPropagate ==
    /\ pc = "sig_propagate"
    /\ Kill(0, Targets(Restrict(commands, getActiveCommands(commands))), signum, TRUE)
    /\ pc' = "sig_term1"
    /\ term' = [term EXCEPT ![0] = Call(TRUE)]
    /\ UNCHANGED <<cmds, runnerVars, readerVars, cur, depi, gate, pipeVars, pumpVars,
                   prog, signum, jel, fmtVars, pidVars, status, clock, held, cmdline, parsed, joined, callbacks, feedVars>>

\* onSignal 882-887: terminate(graceful=False) if the graceful call returned
\* False, then join(timeout=int(force_timeout))
SigAfterGraceful ==
    /\ pc = "sig_term1"
    /\ term[0].ph = "ret"
    /\ IF term[0].res
          THEN pc' = "sig_join" /\ term' = term
          ELSE pc' = "sig_term2" /\ term' = [term EXCEPT ![0] = Call(FALSE)]
    /\ jel' = 0
    /\ UNCHANGED <<cmds, runnerVars, osVars, readerVars, cur, depi, gate, pipeVars, pumpVars,
                   prog, sent, signum, fmtVars, pidVars, status, clock, held, cmdline, parsed, joined, callbacks, descVars, feedVars>>

\* onSignal 884-887: the forced call has returned, on to the join
SigAfterForce ==
    /\ pc = "sig_term2"
    /\ term[0].ph = "ret"
    /\ pc' = "sig_join"
    /\ jel' = 0
    /\ UNCHANGED <<cmds, runnerVars, osVars, readerVars, cur, depi, gate, pipeVars, pumpVars,
                   prog, term, sent, signum, fmtVars, pidVars, status, clock, held, cmdline, parsed, joined, callbacks, descVars, feedVars>>

\* join 713-755 with timeout=int(force_timeout), onSignal 887-892: returns
\* when no reader thread is alive or the timeout has elapsed; sys.exit(0)
SigJoinExit ==
    /\ pc = "sig_join"
    /\ getActiveCommands(commands) = {} \/ jel >= ForceTicks
    /\ pc' = "exit0"
    /\ UNCHANGED <<cmds, runnerVars, osVars, readerVars, cur, depi, gate, pipeVars, pumpVars,
                   termVars, fmtVars, pidVars, status, clock, held, cmdline, parsed, joined, callbacks, descVars, feedVars>>

\* the value of -t, in seconds
Timeout == 1

\* cli() 1353-1355: join(timeout=args.timeout) returns when no reader thread
\* is alive or the timeout has elapsed since the call; terminate() is called
TimeoutJoin ==
    /\ pc = "tjoin"
    /\ getActiveCommands(commands) = {} \/ jel >= Timeout
    /\ pc' = "t_term"
    /\ term' = [term EXCEPT ![0] = Call(TRUE)]
    /\ joined' = JoinReturn("join_timeout")
    /\ UNCHANGED <<cmds, runnerVars, osVars, readerVars, cur, depi, gate, pipeVars, pumpVars,
                   prog, sent, signum, jel, fmtVars, pidVars, status, clock, held, cmdline, parsed, callbacks, descVars, feedVars>>

\* cli() 1355-1356: terminate() has returned, on to join()
TimeoutTerminated ==
    /\ pc = "t_term"
    /\ term[0].ph = "ret"
    /\ pc' = "join"
    /\ UNCHANGED <<cmds, runnerVars, osVars, readerVars, cur, depi, gate, pipeVars, pumpVars,
                   termVars, fmtVars, pidVars, status, clock, held, cmdline, parsed, joined, callbacks, descVars, feedVars>>

\* join 716-720: the entries of self.commands whose Command object is one
\* of the given ones
JoinSelection ==
    IF joined.call = "joining"
       THEN Restrict(commands, {k \in DOMAIN commands : commands[k] \in joined.only})
       ELSE commands

\* an API caller, some time after its run() calls: runner.join(c1, ...,
\* timeout=Timeout) with Command objects its run() calls returned.  As
\* history, whether none of them has an active entry in the table
ApiJoinSome(S) ==
    /\ pc = "api_wait"
    /\ S # {}
    /\ pc' = "join_some"
    /\ jel' = 0
    /\ joined' = [call |-> "joining", only |-> S,
                  idle |-> \A k \in DOMAIN commands : commands[k] \in S => ~IsAlive(commands[k])]
    /\ UNCHANGED <<cmds, runnerVars, osVars, readerVars, cur, depi, gate, pipeVars, pumpVars,
                   prog, term, sent, signum, fmtVars, pidVars, status, clock, held, cmdline, parsed, callbacks, descVars, feedVars>>

\* join 722-755: returns when getActiveCommands(selection) is empty or the
\* timeout has elapsed, with the commands of getActiveCommands(selection)
JoinSomeReturn ==
    /\ pc = "join_some"
    /\ getActiveCommands(JoinSelection) = {} \/ jel >= Timeout
    /\ pc' = "api_done"
    /\ joined' = [call |-> "join_some", only |-> joined.only, idle |-> joined.idle,
                  active |-> getActiveCommands(JoinSelection), elapsed |-> jel]
    /\ UNCHANGED <<cmds, runnerVars, osVars, readerVars, cur, depi, gate, pipeVars, pumpVars,
                   termVars, fmtVars, pidVars, status, clock, held, cmdline, parsed, callbacks, descVars, feedVars>>

\* a reader thread can take a step without waiting for anything
ReaderRunnable(i) ==
    \/ /\ thread[i] = "reading"
       /\ \/ channels[i] = {}
          \/ \E s \in channels[i] : s \notin wfd[i] \/ pipe[i][s] # <<>>
    \/ thread[i] = "in_end" /\ ~Sleeping(i)

\* the main thread can take a step without waiting for anything
MainRunnable ==
    \/ pc \in {"run", "popen", "thread", "do_start", "register", "sig_propagate"}
    \/ pc = "dep_wait" /\ LET dep == cmds[cur].dependencies[depi] IN
                             IF dep.wait_for_start THEN waitForProcessStart(dep.key)
                                                   ELSE waitForProcess(dep.key)
    \/ pc = "join" /\ getActiveCommands(commands) = {}
    \/ pc \in {"api_term", "sig_term1", "sig_term2", "t_term"} /\ ~Sleeping(0)
    \/ pc = "sig_join" /\ (getActiveCommands(commands) = {} \/ jel >= ForceTicks)
    \/ pc = "tjoin" /\ (getActiveCommands(commands) = {} \/ jel >= Timeout)
    \/ pc = "join_some" /\ (getActiveCommands(JoinSelection) = {} \/ jel >= Timeout)

\* a second goes by: every thread asleep between two polls of terminate()
\* polls again with one more second elapsed; a join with a timeout has
\* waited one more second.  Threads that can run do so before the second is
\* over.
Tick ==
    /\ ~MainRunnable
    /\ \A i \in Kids : ~ReaderRunnable(i)
    /\ \/ \E t \in Threads : Sleeping(t)
       \/ pc \in {"sig_join", "tjoin", "join_some"}
       \/ prog = "cli_timeout" /\ clock < Timeout
    /\ clock' = IF prog = "cli_timeout" /\ clock < Timeout THEN clock + 1 ELSE clock
    /\ term' = [t \in Threads |->
                  IF Sleeping(t)
                     THEN [term[t] EXCEPT !.el = @ + 1,
                                          !.ph = IF @ = "grace_sleep" THEN "grace" ELSE "force"]
                     ELSE term[t]]
    /\ jel' = IF pc \in {"sig_join", "tjoin", "join_some"} THEN jel + 1 ELSE jel
    /\ UNCHANGED <<cmds, runnerVars, osVars, readerVars, mainVars, pipeVars, pumpVars,
                   prog, sent, signum, fmtVars, pidVars, status, held, cmdline, parsed, joined, callbacks, descVars, feedVars>>

\* multiplex "A[|end]=<program>" "B=<program>": A with or without the end
\* action, B running a program that ignores SIGTERM or not
TermBatches ==
    {<<[Plain("A") EXCEPT !.actions = acts], [Plain("B") EXCEPT !.ignores = ign]>> :
        acts \in {{}, {"end"}}, ign \in {{}, {"SIGTERM"}}}

InitTerm == InitWith(TermBatches, {"cli", "api_graceful"}, {FALSE})

NextTerm ==
    \/ RunBegin
    \/ Popen
    \/ ThreadStart
    \/ DoStart
    \/ CliJoin
    \/ \E i \in Kids : ChildExit(i)
    \/ \E i \in Kids, s \in Streams : ChildClose(i, s)
    \/ \E i \in Kids, s \in Streams : ReaderEOF(i, s)
    \/ \E i \in Kids : ReaderEnd(i)
    \/ \E i \in Kids : ReaderEndReturn(i)
    \/ \E t \in Threads : TermBegin(t)
    \/ \E t \in Threads : TermGrace(t)
    \/ \E t \in Threads : TermForce(t)
    \/ ApiTerminate
    \/ ApiReturn
    \/ \E sg \in SIGNAMES : Signal(sg)
    \/ SigPropagate
    \/ SigAfterGraceful
    \/ SigAfterForce
    \/ SigJoinExit
    \/ Tick

SpecTerm == InitTerm /\ [][NextTerm]_vars

----------------------------------------------------------------------------
(* The formatter under concurrent emission *)

\* most chunks a child of the format batches writes on its stdout
MaxOut == 1

\* multiplex "A=<writes up to MaxOut chunks>" "B=<writes nothing>", the
\* formatter writing to its sink
FormatBatches ==
    {<<[Plain("A") EXCEPT !.out = [s \in Streams |-> IF s = 1 THEN n ELSE 0]],
       Plain("B")>> : n \in 0..MaxOut}

InitFormat == InitWith(FormatBatches, {"cli"}, {TRUE})

NextFormat ==
    \/ RunBegin
    \/ Popen
    \/ ThreadStart
    \/ DoStart
    \/ CliJoin
    \/ \E i \in Kids : ChildExit(i)
    \/ \E i \in Kids, s \in Streams : ChildWrite(i, s)
    \/ \E i \in Kids, s \in Streams : ReaderRead(i, s)
    \/ \E i \in Kids, s \in Streams : ReaderEOF(i, s)
    \/ \E i \in Kids : ReaderEnd(i)
    \/ \E i \in Kids : ReaderEndReturn(i)
    \/ \E t \in Threads : FmtWrite(t)

SpecFormat == InitFormat /\ [][NextFormat]_vars

----------------------------------------------------------------------------
(* Process identifiers *)

\* os.waitpid(pid, WNOHANG) on a child that has exited (join 744-748,
\* Proc.kill 165-170): the child is reaped and the OS may reuse its pid
Reap(i) ==
    /\ proc[i] = "dead"
    /\ proc' = [proc EXCEPT ![i] = "reaped"]
    /\ UNCHANGED <<cmds, runnerVars, wfd, readerVars, mainVars, pipeVars, pumpVars, termVars,
                   fmtVars, pidVars, status, clock, held, cmdline, parsed, joined, callbacks, descVars, feedVars>>

\* a process that is not a child of the supervisor takes the next pid
PidAdvance ==
    /\ nextpid' = (nextpid % MaxPid) + 1
    /\ UNCHANGED <<cmds, runnerVars, osVars, readerVars, mainVars, pipeVars, pumpVars, termVars,
                   fmtVars, pid, pgid, status, clock, held, cmdline, parsed, joined, callbacks, descVars, feedVars>>

\* multiplex "A=<program>" "B=<program>" "C=<program>"
PidBatches == {<<Plain("A"), Plain("B"), Plain("C")>>}

InitPid == InitWith(PidBatches, {"cli"}, {FALSE})

NextPid ==
    \/ RunBegin
    \/ Popen
    \/ ThreadStart
    \/ DoStart
    \/ CliJoin
    \/ \E i \in Kids : ChildExit(i)
    \/ \E i \in Kids, s \in Streams : ReaderEOF(i, s)
    \/ \E i \in Kids : ReaderEnd(i)
    \/ \E i \in Kids : Reap(i)
    \/ PidAdvance

SpecPid == InitPid /\ [][NextPid]_vars

----------------------------------------------------------------------------
(* Keys *)

\* the keys a command of the key batches is given: none, or an explicit one
BatchKeys == {"", "1", "A"}

\* multiplex "[KEY=]<program>" "[KEY=]<program>" "[KEY=]<program>"
KeyBatches ==
    {<<Plain(k1), Plain(k2), Plain(k3)>> : k1 \in BatchKeys, k2 \in BatchKeys, k3 \in BatchKeys}

InitKeys == InitWith(KeyBatches, {"cli"}, {FALSE})

NextKeys ==
    \/ RunBegin
    \/ Popen
    \/ ThreadStart
    \/ DoStart
    \/ CliJoin
    \/ \E i \in Kids : ChildExit(i)
    \/ \E i \in Kids, s \in Streams : ReaderEOF(i, s)
    \/ \E i \in Kids : ReaderEnd(i)

SpecKeys == InitKeys /\ [][NextKeys]_vars

----------------------------------------------------------------------------
(* Exit status *)

\* the statuses the programs of the exit batches exit with
ExitCodes == {0, 1, 3}

\* multiplex "A=sh -c 'exit <a>'" "B=sh -c 'exit <b>'"
ExitBatches ==
    {<<[Plain("A") EXCEPT !.exit = a], [Plain("B") EXCEPT !.exit = b]>> :
        a \in ExitCodes, b \in ExitCodes}

InitExit == InitWith(ExitBatches, {"cli"}, {FALSE})

NextExit ==
    \/ RunBegin
    \/ Popen
    \/ ThreadStart
    \/ DoStart
    \/ CliJoin
    \/ \E i \in Kids : ChildExit(i)
    \/ \E i \in Kids, s \in Streams : ReaderEOF(i, s)
    \/ \E i \in Kids : ReaderEnd(i)
    \/ \E i \in Kids : Reap(i)

SpecExit == InitExit /\ [][NextExit]_vars

----------------------------------------------------------------------------
(* Spawn failure *)

\* multiplex "A=<program>" "B=<program>", each program existing or not
SpawnBatches ==
    {<<[Plain("A") EXCEPT !.missing = m1], [Plain("B") EXCEPT !.missing = m2]>> :
        m1 \in BOOLEAN, m2 \in BOOLEAN}

InitSpawn == InitWith(SpawnBatches, {"cli"}, {TRUE})

NextSpawn ==
    \/ RunBegin
    \/ Popen
    \/ ThreadStart
    \/ DoStart
    \/ CliJoin
    \/ \E i \in Kids : ChildExit(i)
    \/ \E i \in Kids, s \in Streams : ReaderEOF(i, s)
    \/ \E i \in Kids : ReaderEnd(i)
    \/ \E i \in Kids : ReaderEndReturn(i)
    \/ \E t \in Threads : FmtWrite(t)

SpecSpawn == InitSpawn /\ [][NextSpawn]_vars

----------------------------------------------------------------------------
(* The -t option *)

\* multiplex -t Timeout "A=<program>" "B[:A]=<program>": the program of A
\* ignoring SIGTERM or not, B with or without the end dependency on A
TimeoutBatches ==
    {<<[Plain("A") EXCEPT !.ignores = ign], [Plain("B") EXCEPT !.dependencies = dl]>> :
        ign \in {{}, {"SIGTERM"}},
        dl \in {<<>>, <<[key |-> "A", wait_for_start |-> FALSE, delays |-> <<>>]>>}}

InitTimeout == InitWith(TimeoutBatches, {"cli_timeout"}, {FALSE})

NextTimeout ==
    \/ RunBegin
    \/ DepWait
    \/ Popen
    \/ ThreadStart
    \/ DoStart
    \/ TimeoutJoin
    \/ TimeoutTerminated
    \/ CliJoin
    \/ \E i \in Kids : ChildExit(i)
    \/ \E i \in Kids, s \in Streams : ChildClose(i, s)
    \/ \E i \in Kids, s \in Streams : ReaderEOF(i, s)
    \/ \E i \in Kids : ReaderEnd(i)
    \/ TermBegin(0)
    \/ TermGrace(0)
    \/ TermForce(0)
    \/ Tick

SpecTimeout == InitTimeout /\ [][NextTimeout]_vars

----------------------------------------------------------------------------
(* Termination while a command is at its gate *)

\* multiplex "A|end=<program>" "B[+delay][:A]=<program>", with or without a
\* signal to the supervisor
CancelBatches ==
    {<<[Plain("A") EXCEPT !.actions = {"end"}],
       [Plain("B") EXCEPT !.dependencies = dl, !.start_delay = sd]>> :
        dl \in {<<>>, <<[key |-> "A", wait_for_start |-> FALSE, delays |-> <<>>]>>},
        sd \in {0, 1}}

InitCancel == InitWith(CancelBatches, {"cli"}, {FALSE})

NextCancel ==
    \/ RunBegin
    \/ DepWait
    \/ StartDelay
    \/ Popen
    \/ ThreadStart
    \/ DoStart
    \/ CliJoin
    \/ \E i \in Kids : ChildExit(i)
    \/ \E i \in Kids, s \in Streams : ChildClose(i, s)
    \/ \E i \in Kids, s \in Streams : ReaderEOF(i, s)
    \/ \E i \in Kids : ReaderEnd(i)
    \/ \E i \in Kids : ReaderEndReturn(i)
    \/ \E t \in Threads : TermBegin(t)
    \/ \E t \in Threads : TermGrace(t)
    \/ \E t \in Threads : TermForce(t)
    \/ \E sg \in SIGNAMES : Signal(sg)
    \/ SigPropagate
    \/ SigAfterGraceful
    \/ SigAfterForce
    \/ SigJoinExit
    \/ Tick

SpecCancel == InitCancel /\ [][NextCancel]_vars

----------------------------------------------------------------------------
(* parse: command lines, as sequences of characters *)

Digit == {"0", "1", "2", "3", "4", "5", "6", "7", "8", "9"}
Lower == {"a", "b", "c", "d", "e", "f", "g", "h", "i", "j", "k", "l", "m",
          "n", "o", "p", "q", "r", "s", "t", "u", "v", "w", "x", "y", "z"}
Upper == {"A", "B", "C", "D", "E", "F", "G", "H", "I", "J", "K", "L", "M",
          "N", "O", "P", "Q", "R", "S", "T", "U", "V", "W", "X", "Y", "Z"}
HexDigit == Digit \cup {"a", "b", "c", "d", "e", "f", "A", "B", "C", "D", "E", "F"}
\* [\dA-Za-z_], the characters of a key
KeyChars == Digit \cup Lower \cup Upper \cup {"_"}

\* the index after the longest run of characters of class that starts at from
RunEnd(s, from, class) ==
    CHOOSE j \in from..(Len(s) + 1) :
        /\ \A i \in from..(j - 1) : s[i] \in class
        /\ j = Len(s) + 1 \/ s[j] \notin class

\* the index of the first character of stops at or after from, or Len(s) + 1
FindStop(s, from, stops) ==
    CHOOSE j \in from..(Len(s) + 1) :
        /\ \A i \in from..(j - 1) : s[i] \notin stops
        /\ j = Len(s) + 1 \/ s[j] \in stops

\* s[from:]
Tail_(s, from) == SubSeq(s, from, Len(s))

RECURSIVE split(_, _)
\* str.split(d): the parts of s between the occurrences of d
split(s, d) ==
    LET j == FindStop(s, 1, {d}) IN
    IF j > Len(s) THEN <<s>> ELSE <<SubSeq(s, 1, j - 1)>> \o split(Tail_(s, j + 1), d)

\* str.strip() of a text whose only whitespace is the space
strip(s) ==
    LET a == RunEnd(s, 1, {" "}) IN
    IF a > Len(s) THEN <<>>
    ELSE LET b == CHOOSE j \in a..Len(s) :
                      s[j] # " " /\ \A i \in (j + 1)..Len(s) : s[i] = " "
         IN SubSeq(s, a, b)

RECURSIVE int(_)
\* the value of a non-empty run of decimal digits
int(s) ==
    LET d == CHOOSE n \in 0..9 : DecimalDigits[n + 1] = s[Len(s)] IN
    IF Len(s) = 1 THEN d ELSE 10 * int(SubSeq(s, 1, Len(s) - 1)) + d

IsDigits(s) == s # <<>> /\ \A i \in DOMAIN s : s[i] \in Digit

\* an absent regex group, None
None == <<>>
\* parse_delay returned the text itself: a named delay.  The delays are
\* counted in milliseconds; without a '.', no delay is a negative number of
\* milliseconds that is not a multiple of 1000.
Named == -1

\* the unit that follows the digits of a component of RE_DELAY, at index d:
\* "ms" before "m", as a component that follows "m" starts with a digit
UnitAt(t, d) ==
    IF d + 1 <= Len(t) /\ t[d] = "m" /\ t[d + 1] = "s" THEN "ms"
    ELSE IF d <= Len(t) /\ t[d] = "m" THEN "m"
    ELSE IF d <= Len(t) /\ t[d] = "s" THEN "s"
    ELSE ""

\* RE_DELAY 1137, one optional component (?:(\d+)unit)? that starts at from:
\* the index after it, or from when it is absent; for a text without '.'
ComponentEnd(t, from, unit) ==
    LET d == RunEnd(t, from, Digit) IN
    IF d > from /\ UnitAt(t, d) = unit
       THEN d + (IF unit = "ms" THEN 2 ELSE 1)
       ELSE from

\* the number of a component that runs from from to to, 0 when it is absent
ComponentValue(t, from, to) ==
    IF to = from THEN 0 ELSE int(SubSeq(t, from, RunEnd(t, from, Digit) - 1))

MinutesEnd(t) == ComponentEnd(t, 1, "m")
SecondsEnd(t) == ComponentEnd(t, MinutesEnd(t), "s")
MillisecondsEnd(t) == ComponentEnd(t, SecondsEnd(t), "ms")

\* parse_delay 1164-1182 with the minute counted as 6 seconds
total_seconds_ShortMinute(t) ==
    6000 * ComponentValue(t, 1, MinutesEnd(t))
    + 1000 * ComponentValue(t, MinutesEnd(t), SecondsEnd(t))
    + ComponentValue(t, SecondsEnd(t), MillisecondsEnd(t))

\* parse_delay 1164-1182: minutes * 60.0 + seconds + milliseconds / 1000.0
total_seconds(t) ==
    60000 * ComponentValue(t, 1, MinutesEnd(t))
    + 1000 * ComponentValue(t, MinutesEnd(t), SecondsEnd(t))
    + ComponentValue(t, SecondsEnd(t), MillisecondsEnd(t))

\* parse_delay 1141-1190, for a text without '.', '_' and letters other than
\* a, m and s: the stripped text matches RE_DELAY as a bare number
\* (default) or as minutes, seconds and milliseconds in this order, each
\* optional; otherwise float() accepts a sign and a run of digits, and
\* anything else is a named delay
parse_delay(delay_str) ==
    LET t == strip(delay_str) IN
    IF IsDigits(t) THEN 1000 * int(t)
    ELSE IF MillisecondsEnd(t) = Len(t) + 1 THEN total_seconds(t)
    ELSE IF t[1] = "+" /\ IsDigits(Tail(t)) THEN 1000 * int(Tail(t))
    ELSE IF t[1] = "-" /\ IsDigits(Tail(t)) THEN 0 - 1000 * int(Tail(t))
    ELSE Named

RECURSIVE dep_delays(_)
\* parse_dependencies 1117-1128: the delays of one dependency, named and
\* blank ones skipped
dep_delays(parts) ==
    IF parts = <<>> THEN <<>>
    ELSE (IF strip(Head(parts)) # <<>> /\ parse_delay(Head(parts)) # Named
             THEN <<parse_delay(Head(parts))>> ELSE <<>>) \o dep_delays(Tail(parts))

\* parse_dependencies 1095-1131: one part between colons, as a sequence of
\* zero or one dependency
parse_dependency(dep_part) ==
    IF strip(dep_part) = <<>> THEN <<>>
    ELSE LET amp  == FindStop(dep_part, 1, {"&"})
             plus == FindStop(dep_part, 1, {"+"})
             wfs  == amp <= Len(dep_part)
             cut  == IF wfs THEN amp ELSE plus
             k    == SubSeq(dep_part, 1, cut - 1)
             delay_part == IF wfs THEN Tail_(dep_part, amp + 1) ELSE Tail_(dep_part, plus)
         IN IF strip(k) = <<>> THEN <<>>
            ELSE <<[key |-> strip(k), wait_for_start |-> wfs,
                    delays |-> IF delay_part = <<>> THEN <<>>
                               ELSE dep_delays(split(delay_part, "+"))]>>

RECURSIVE parse_dependency_parts(_)
parse_dependency_parts(parts) ==
    IF parts = <<>> THEN <<>>
    ELSE parse_dependency(Head(parts)) \o parse_dependency_parts(Tail(parts))

\* parse_dependencies 1074-1133
parse_dependencies(deps_str) ==
    IF deps_str = <<>> \/ deps_str[1] # ":" THEN <<>>
    ELSE parse_dependency_parts(split(Tail(deps_str), ":"))

RECURSIVE splitargs_from(_, _, _, _, _)
\* splitargs 984-997: the loop from index i (counted from 0), o the start of
\* the current argument, p the previous character, delimiter the character
\* that ends the current argument
splitargs_from(command, i, o, p, delimiter) ==
    IF i = Len(command)
        THEN IF o # i THEN <<SubSeq(command, o + 1, i)>> ELSE <<>>
    ELSE LET c == command[i + 1] IN
         IF c = delimiter /\ p # "\\"
            THEN (IF o # i THEN <<SubSeq(command, o + 1, i)>> ELSE <<>>)
                 \o splitargs_from(command, i + 1, i + 1, c, " ")
         ELSE IF delimiter = " " /\ c \in {"'", "\""}
            THEN splitargs_from(command, i + 1, i + 1, c, c)
         ELSE splitargs_from(command, i + 1, o, c, delimiter)

\* splitargs 975-997
splitargs(command) == splitargs_from(command, 0, 0, "", " ")

\* the groups of RE_LINE when the optional prefix does not take part
NoPrefix == [matched |-> FALSE, key |-> None, color |-> None, start_delay |-> None,
             redirects |-> None, deps |-> None, action |-> None]

\* RE_LINE 938, the prefix before the '=': key, '#' color, '+' start delay,
\* '<' redirects, ':' dependencies and '|' actions, each optional and in this
\* order, over the whole of P.  No group can hold a '=', and each group runs
\* up to the first character that ends it.  Each operator below gives the
\* index after its group when the group starts at the index it is given, that
\* index itself when the group is absent, and 0 when the prefix cannot match.

\* (?P<key>[\dA-Za-z_]+)?
KeyEnd(P) == RunEnd(P, 1, KeyChars)

\* (#(?P<color>[A-Fa-f0-9]{6}|[A-Za-z]+))?
ColorEnd(P, k) ==
    IF k <= Len(P) /\ P[k] = "#"
       THEN LET c == RunEnd(P, k + 1, Digit \cup Lower \cup Upper)
                colour == SubSeq(P, k + 1, c - 1)
            IN IF \/ Len(colour) = 6 /\ \A i \in DOMAIN colour : colour[i] \in HexDigit
                  \/ colour # <<>> /\ \A i \in DOMAIN colour : colour[i] \in Lower \cup Upper
                  THEN c ELSE 0
       ELSE k

\* a group that starts with the character first and runs up to the first
\* character of stops, of at least one character after first
GroupEnd(P, from, first, stops) ==
    IF from = 0 THEN 0
    ELSE IF from <= Len(P) /\ P[from] = first
       THEN LET e == FindStop(P, from + 1, stops) IN IF e > from + 1 THEN e ELSE 0
       ELSE from

\* (?P<start_delay>\+[^:=|<]+?)?
DelayEnd(P) == GroupEnd(P, ColorEnd(P, KeyEnd(P)), "+", {":", "|", "<"})
\* (?P<redirects><[^:=|]+?)?
RedirectsEnd(P) == GroupEnd(P, DelayEnd(P), "<", {":", "|"})
\* (?P<deps>:[^|=]+?)?
DepsEnd(P) == GroupEnd(P, RedirectsEnd(P), ":", {"|"})

\* (?P<action>(\|[a-z]+)+)? up to the end of the prefix
ActionMatches(P, e) ==
    /\ e # 0
    /\ IF e <= Len(P) /\ P[e] = "|"
          THEN LET names == split(Tail_(P, e + 1), "|") IN
               \A x \in DOMAIN names :
                   names[x] # <<>> /\ \A i \in DOMAIN names[x] : names[x][i] \in Lower
          ELSE e = Len(P) + 1

\* the groups, from the indexes at which they end
Groups(P, k, c, d, r, e) ==
    [matched |-> TRUE,
     key |-> SubSeq(P, 1, k - 1),
     color |-> SubSeq(P, k + 1, c - 1),
     start_delay |-> SubSeq(P, c, d - 1),
     redirects |-> SubSeq(P, d, r - 1),
     deps |-> SubSeq(P, r, e - 1),
     action |-> Tail_(P, e)]

MatchPrefix(P) ==
    IF ActionMatches(P, DepsEnd(P))
       THEN Groups(P, KeyEnd(P), ColorEnd(P, KeyEnd(P)), DelayEnd(P), RedirectsEnd(P), DepsEnd(P))
       ELSE NoPrefix

\* RE_LINE.match(line) 938, for a line without a newline: the prefix group
\* takes part when the text before the first '=' matches it and a command of
\* at least one character follows; otherwise the whole line is the command.
\* The empty line does not match.
RE_LINE(line) ==
    LET eq == FindStop(line, 1, {"="})
        m  == IF eq < Len(line) THEN MatchPrefix(SubSeq(line, 1, eq - 1)) ELSE NoPrefix
    IN [groups |-> m,
        command |-> IF m.matched THEN Tail_(line, eq + 1) ELSE line]

\* parse() 1193-1229: the ParsedCommand, or the SyntaxError it raises.  The
\* redirects are kept as the text of their group.
parse(l) ==
    LET zero == [error |-> "none", key |-> None, color |-> None, start_delay |-> 0,
                 dependencies |-> <<>>, redirects |-> None, actions |-> <<>>,
                 command |-> <<>>]
    IN IF l = <<>> THEN [zero EXCEPT !.error = "SyntaxError"]
       ELSE LET match == RE_LINE(l)
                g == match.groups
                delay == IF g.start_delay = None THEN 0
                         ELSE parse_delay(Tail(g.start_delay))
            IN IF delay = Named THEN [zero EXCEPT !.error = "SyntaxError"]
               ELSE [error |-> "none",
                     key |-> g.key,
                     color |-> g.color,
                     start_delay |-> delay,
                     dependencies |-> parse_dependencies(g.deps),
                     redirects |-> g.redirects,
                     actions |-> IF g.action = None THEN <<>> ELSE Tail(split(g.action, "|")),
                     command |-> splitargs(match.command)]

\* the longest command line given to parse
MaxLen == 3
\* the characters the lines are made of
Chars == {"a", "1", "=", " ", "'", "+", ":", "|"}
Lines == UNION {[1..n -> Chars] : n \in 1..MaxLen}
\* the key put in front of a line
KEY == <<"K">>

NotParsed == [call |-> "none"]

InitParse ==
    /\ InitProgram({<<>>}, {"cli"}, {FALSE})
    /\ cmdline \in Lines
    /\ parsed = NotParsed
    /\ joined = [call |-> "none"]
    /\ callbacks = [i \in Kids |-> {}]

\* parse(X)
ParsePlain ==
    /\ parsed.call = "none"
    /\ parsed' = [call |-> "plain", result |-> parse(cmdline)]
    /\ UNCHANGED <<cmds, runnerVars, osVars, readerVars, mainVars, pipeVars, pumpVars,
                   termVars, fmtVars, pidVars, status, clock, held, cmdline, joined, callbacks, descVars, feedVars>>

\* parse("KEY=" + X)
ParseKeyed ==
    /\ parsed.call = "none"
    /\ parsed' = [call |-> "keyed", result |-> parse(KEY \o <<"=">> \o cmdline)]
    /\ UNCHANGED <<cmds, runnerVars, osVars, readerVars, mainVars, pipeVars, pumpVars,
                   termVars, fmtVars, pidVars, status, clock, held, cmdline, joined, callbacks, descVars, feedVars>>

NextParse ==
    \/ ParsePlain
    \/ ParseKeyed

SpecParse == InitParse /\ [][NextParse]_vars

----------------------------------------------------------------------------
(* Command lines with the start-on-output prefix '>SOURCES' *)

\* a key of one character as the runner holds it, "" for None
KeyName(k) == IF k = None THEN "" ELSE k[1]

\* cli() 1340-1352: the line is parsed and its key, start delay and
\* dependencies are passed to run(); program says what the program named by
\* the command does.  For lines without redirects and actions.
Submit(l, program) ==
    LET r == parse(l) IN
    [program EXCEPT
        !.key = KeyName(r.key),
        !.start_delay = r.start_delay,
        !.dependencies = [x \in DOMAIN r.dependencies |->
                             [key |-> KeyName(r.dependencies[x].key),
                              wait_for_start |-> r.dependencies[x].wait_for_start,
                              delays |-> r.dependencies[x].delays]]]

\* the line of the child that is to start on the output of A
OnOutputLine == <<">", "A", "=", "e">>

\* multiplex "A=e" ">A=e": A writes up to one chunk on each stream; a
\* program of the name the second line is parsed to exists or not
OutputBatches ==
    {<<Submit(<<"A", "=", "e">>, [Plain("") EXCEPT !.out = o]),
       Submit(OnOutputLine, [Plain("") EXCEPT !.missing = m])>> :
        o \in [Streams -> 0..1], m \in BOOLEAN}

InitOutput == InitWith(OutputBatches, {"cli"}, {FALSE})

NextOutput ==
    \/ RunBegin
    \/ Popen
    \/ ThreadStart
    \/ DoStart
    \/ CliJoin
    \/ \E i \in Kids : ChildExit(i)
    \/ \E i \in Kids, s \in Streams : ChildWrite(i, s)
    \/ \E i \in Kids, s \in Streams : ReaderRead(i, s)
    \/ \E i \in Kids, s \in Streams : ReaderEOF(i, s)
    \/ \E i \in Kids : ReaderEnd(i)

SpecOutput == InitOutput /\ [][NextOutput]_vars

----------------------------------------------------------------------------
(* parse_delay on durations made of minutes, seconds and milliseconds *)

\* the largest number of a component
MaxNum == 10
Units == {"m", "s", "ms"}

RECURSIVE digits(_)
\* the decimal digits of a natural number, as characters
digits(n) ==
    IF n < 10 THEN <<DecimalDigits[n + 1]>>
    ELSE digits(n \div 10) \o <<DecimalDigits[(n % 10) + 1]>>

\* the text 'a m b s c ms' with the components of has
DelayText(a, b, c, has) ==
    (IF "m" \in has THEN digits(a) \o <<"m">> ELSE <<>>)
    \o (IF "s" \in has THEN digits(b) \o <<"s">> ELSE <<>>)
    \o (IF "ms" \in has THEN digits(c) \o <<"m", "s">> ELSE <<>>)

\* the durations given to parse_delay: any subset of the components, or a
\* bare number
DelayTexts ==
    {DelayText(a, b, c, has) : a \in 0..MaxNum, b \in 0..MaxNum, c \in 0..MaxNum,
                               has \in SUBSET Units}
    \cup {digits(n) : n \in 0..MaxNum}

InitDelay ==
    /\ InitProgram({<<>>}, {"cli"}, {FALSE})
    /\ cmdline \in DelayTexts
    /\ parsed = NotParsed
    /\ joined = [call |-> "none"]
    /\ callbacks = [i \in Kids |-> {}]

\* parse_delay(text)
ParseDelay ==
    /\ parsed.call = "none"
    /\ parsed' = [call |-> "delay", result |-> parse_delay(cmdline)]
    /\ UNCHANGED <<cmds, runnerVars, osVars, readerVars, mainVars, pipeVars, pumpVars,
                   termVars, fmtVars, pidVars, status, clock, held, cmdline, joined, callbacks, descVars, feedVars>>

NextDelay == ParseDelay

SpecDelay == InitDelay /\ [][NextDelay]_vars

----------------------------------------------------------------------------
(* parse on lines with a delay token *)

\* the longest delay token
MaxToken == 3
\* the characters the delay tokens are made of
TokenChars == {"1", "m", "s", "+", "-", "a", " "}
Tokens == UNION {[1..n -> TokenChars] : n \in 1..MaxToken}

\* the line with the token as its start delay, and the line with the token
\* as the delay of a dependency
StartDelayLine(tok) == <<"+">> \o tok \o <<"=", "a">>
DepDelayLine(tok) == <<":", "a", "+">> \o tok \o <<"=", "a">>

InitToken ==
    /\ InitProgram({<<>>}, {"cli"}, {FALSE})
    /\ cmdline \in {StartDelayLine(tok) : tok \in Tokens} \cup {DepDelayLine(tok) : tok \in Tokens}
    /\ parsed = NotParsed
    /\ joined = [call |-> "none"]
    /\ callbacks = [i \in Kids |-> {}]

NextToken == ParsePlain

SpecToken == InitToken /\ [][NextToken]_vars

----------------------------------------------------------------------------
(* join, without and with a timeout *)

\* multiplex [-t Timeout] "A=<program>" "B=<program>"
JoinBatches == {<<Plain("A"), Plain("B")>>}

InitJoin == InitWith(JoinBatches, {"cli", "cli_timeout"}, {FALSE})

NextJoin ==
    \/ RunBegin
    \/ Popen
    \/ ThreadStart
    \/ DoStart
    \/ CliJoin
    \/ TimeoutJoin
    \/ TimeoutTerminated
    \/ \E i \in Kids : ChildExit(i)
    \/ \E i \in Kids, s \in Streams : ChildClose(i, s)
    \/ \E i \in Kids, s \in Streams : ReaderEOF(i, s)
    \/ \E i \in Kids : ReaderEnd(i)
    \/ TermBegin(0)
    \/ TermGrace(0)
    \/ Tick

SpecJoin == InitJoin /\ [][NextJoin]_vars

----------------------------------------------------------------------------
(* Dispatch of the events to the formatter or to the callbacks *)

\* an API caller that calls run() and then join(): A writes one chunk on each
\* stream, is silent or not, and the caller passes callbacks for it or not
DispatchBatches ==
    {<<[Plain("A") EXCEPT !.out = [s \in Streams |-> 1], !.actions = acts, !.on = on]>> :
        acts \in {{}, {"silent"}}, on \in {{}, {"out"}, {"start", "end"}}}

InitDispatch == InitWith(DispatchBatches, {"api_join"}, {TRUE})

NextDispatch ==
    \/ RunBegin
    \/ Popen
    \/ ThreadStart
    \/ DoStart
    \/ Register
    \/ CliJoin
    \/ \E i \in Kids : ChildExit(i)
    \/ \E i \in Kids, s \in Streams : ChildWrite(i, s)
    \/ \E i \in Kids, s \in Streams : ReaderRead(i, s)
    \/ \E i \in Kids, s \in Streams : ReaderEOF(i, s)
    \/ \E i \in Kids : ReaderEnd(i)
    \/ \E i \in Kids : ReaderEndReturn(i)
    \/ \E t \in Threads : FmtWrite(t)

SpecDispatch == InitDispatch /\ [][NextDispatch]_vars

----------------------------------------------------------------------------
(* The processes the children fork *)

\* multiplex "A=<program that forks a process>": the program ignores SIGTERM
\* or not, and the forked process ignores SIGINT and SIGTERM, or SIGHUP, or
\* nothing
DescendBatches ==
    {<<[Plain("A") EXCEPT !.ignores = ign, !.forks = <<fign>>]>> :
        ign \in {{}, {"SIGTERM"}}, fign \in {{}, {"SIGINT", "SIGTERM"}, {"SIGHUP"}}}

InitDescend == InitWith(DescendBatches, {"cli"}, {FALSE})

NextDescend ==
    \/ RunBegin
    \/ Popen
    \/ ThreadStart
    \/ DoStart
    \/ CliJoin
    \/ \E i \in Kids : ChildExit(i)
    \/ \E i \in Kids : Fork(i)
    \/ \E i \in Kids : SubExit(i)
    \/ \E i \in Kids, s \in Streams : ChildClose(i, s)
    \/ \E i \in Kids, s \in Streams : ReaderEOF(i, s)
    \/ \E i \in Kids : ReaderEnd(i)
    \/ \E t \in Threads : TermBegin(t)
    \/ \E t \in Threads : TermGrace(t)
    \/ \E t \in Threads : TermForce(t)
    \/ \E sg \in SIGNAMES : Signal(sg)
    \/ SigPropagate
    \/ SigAfterGraceful
    \/ SigJoinExit
    \/ Tick

SpecDescend == InitDescend /\ [][NextDescend]_vars

----------------------------------------------------------------------------
(* A consumer with several redirect sources *)

\* multiplex "A=<writes one chunk on stdout and one on stderr>" "B<(1A,2A)=cat"
\* or "B<(2A,1A)=cat"
CrossBatches ==
    {<<[Plain("A") EXCEPT !.out = [s \in Streams |-> 1]],
       [Plain("B") EXCEPT !.redirects = <<[key |-> "A", stream |-> s1],
                                          [key |-> "A", stream |-> 3 - s1]>>]>> :
        s1 \in Streams}

InitCross == InitWith(CrossBatches, {"cli"}, {FALSE})

SpecCross == InitCross /\ [][NextRedirect]_vars

----------------------------------------------------------------------------
(* Two consumers of one source *)

\* multiplex "A=<writes MaxOut chunks on stdout>" "B<A=cat" "C<A=cat"
SharedBatches ==
    {<<[Plain("A") EXCEPT !.out = [s \in Streams |-> IF s = 1 THEN MaxOut ELSE 0]],
       [Plain("B") EXCEPT !.redirects = <<[key |-> "A", stream |-> 1]>>],
       [Plain("C") EXCEPT !.redirects = <<[key |-> "A", stream |-> 1]>>]>>}

InitShared == InitWith(SharedBatches, {"cli"}, {FALSE})

SpecShared == InitShared /\ [][NextRedirect]_vars

----------------------------------------------------------------------------
(* A consumer that reads its stdin to the end *)

\* multiplex "A=<writes one chunk on stdout>" "B<A=<program>", the program of
\* B being cat or one that exits without waiting for the end of its stdin
EOFBatches ==
    {<<[Plain("A") EXCEPT !.out = [s \in Streams |-> IF s = 1 THEN 1 ELSE 0]],
       [Plain("B") EXCEPT !.redirects = <<[key |-> "A", stream |-> 1]>>, !.cat = cat]>> :
        cat \in BOOLEAN}

InitEOF == InitWith(EOFBatches, {"cli"}, {FALSE})

\* every thread of the supervisor that can take a step takes one, a child
\* that has something to write writes it, and a child that can exit exits
FairEOF ==
    /\ WF_vars(RunBegin \/ Popen \/ ThreadStart \/ DoStart \/ CliJoin)
    /\ \A i \in Kids :
          /\ WF_vars(ChildExit(i))
          /\ WF_vars(\E s \in Streams : ChildWrite(i, s))
          /\ WF_vars(\E s \in Streams : ReaderRead(i, s) \/ ReaderEOF(i, s))
          /\ WF_vars(ReaderEnd(i))
          /\ WF_vars(PumpCheck(i) \/ PumpSource(i) \/ PumpClearWrite(i) \/ PumpSleep(i))

SpecEOF == InitEOF /\ [][NextRedirect]_vars /\ FairEOF

----------------------------------------------------------------------------
(* Read errors in a reader thread *)

\* multiplex "A=<writes one chunk on stdout and one on stderr>", the OS
\* failing a read or not
ReadErrorBatches == {<<[Plain("A") EXCEPT !.out = [s \in Streams |-> 1]]>>}

InitReadError == InitWith(ReadErrorBatches, {"cli"}, {FALSE})

NextReadError ==
    \/ RunBegin
    \/ Popen
    \/ ThreadStart
    \/ DoStart
    \/ CliJoin
    \/ \E i \in Kids : ChildExit(i)
    \/ \E i \in Kids, s \in Streams : ChildWrite(i, s)
    \/ \E i \in Kids, s \in Streams : ReaderRead(i, s)
    \/ \E i \in Kids, s \in Streams : ReaderEOF(i, s)
    \/ \E i \in Kids, s \in Streams : ReaderError(i, s)
    \/ \E i \in Kids : ReaderEnd(i)

SpecReadError == InitReadError /\ [][NextReadError]_vars

----------------------------------------------------------------------------
(* The two phases of one terminate() call *)

\* an API caller that runs A and B and calls terminate(graceful=True) or
\* terminate(graceful=False): A ignores SIGTERM or not
PhaseBatches ==
    {<<[Plain("A") EXCEPT !.ignores = ign], Plain("B")>> : ign \in {{}, {"SIGTERM"}}}

InitPhase == InitWith(PhaseBatches, {"api_graceful", "api_force"}, {FALSE})

NextPhase ==
    \/ RunBegin
    \/ Popen
    \/ ThreadStart
    \/ DoStart
    \/ \E i \in Kids : ChildExit(i)
    \/ \E i \in Kids, s \in Streams : ReaderEOF(i, s)
    \/ \E i \in Kids : ReaderEnd(i)
    \/ \E t \in Threads : TermBegin(t)
    \/ \E t \in Threads : TermGrace(t)
    \/ \E t \in Threads : TermForce(t)
    \/ ApiTerminate
    \/ ApiReturn
    \/ Tick

SpecPhase == InitPhase /\ [][NextPhase]_vars

\* a caller that terminates some of the commands it ran: runner.terminate(cmd_a)
SelectBatches ==
    {<<[Plain("A") EXCEPT !.ignores = ig], Plain("B")>> : ig \in {{}, {"SIGTERM"}}}

InitSelect == InitWith(SelectBatches, {"api_select"}, {FALSE})

NextSelect ==
    \/ RunBegin
    \/ Popen
    \/ ThreadStart
    \/ DoStart
    \/ \E i \in Kids : ChildExit(i)
    \/ \E i \in Kids, s \in Streams : ReaderEOF(i, s)
    \/ \E i \in Kids : ReaderEnd(i)
    \/ \E i \in Kids : Reap(i)
    \/ PidAdvance
    \/ \E S \in SUBSET (1..Len(cmds)) : S # 1..Len(cmds) /\ ApiTerminateSome(S)
    \/ \E t \in Threads : TermBegin(t)
    \/ \E t \in Threads : TermGrace(t)
    \/ \E t \in Threads : TermForce(t)
    \/ ApiReturn
    \/ Tick

SpecSelect == InitSelect /\ [][NextSelect]_vars

\* a caller that joins some of the commands it ran; with A run twice, the
\* second run takes the place of the first in the table
JoinSomeBatches == {<<Plain("A"), Plain("B")>>, <<Plain("A"), Plain("A")>>}

InitJoinSome == InitWith(JoinSomeBatches, {"api_join_some"}, {FALSE})

NextJoinSome ==
    \/ RunBegin
    \/ Popen
    \/ ThreadStart
    \/ DoStart
    \/ \E i \in Kids : ChildExit(i)
    \/ \E i \in Kids, s \in Streams : ReaderEOF(i, s)
    \/ \E i \in Kids : ReaderEnd(i)
    \/ \E S \in SUBSET (1..Len(cmds)) : ApiJoinSome(S)
    \/ JoinSomeReturn
    \/ Tick

SpecJoinSome == InitJoinSome /\ [][NextJoinSome]_vars

----------------------------------------------------------------------------
(* Properties of the dependency gate, checked under Spec *)

Deps(b) == cmds[b].dependencies
Launched(b) == proc[b] # "none"
\* the end event of child a has fired: its reader saw EOF on both streams
\* and the end callbacks have returned
EndFired(a) == thread[a] = "dead" /\ channels[a] = {}
StartedEventSet(k) == k \in DOMAIN process_started /\ process_started[k]

\* C1: when A was submitted before B and B declares the end dependency :A,
\* B is not spawned, and B's started event is not set, before A's end event
\* has fired.
C1_EndDependencyOrdering ==
    \A a \in Kids, b \in Kids : \A n \in DOMAIN Deps(b) :
        (/\ a < b
         /\ Deps(b)[n].key = cmds[a].key
         /\ ~Deps(b)[n].wait_for_start
         /\ (Launched(b) \/ StartedEventSet(cmds[b].key)))
        => EndFired(a)

\* B, declared with :A somewhere in its list, has been spawned
C1_Witness ==
    /\ \E n \in DOMAIN Deps(2) : Deps(2)[n].key = "A" /\ ~Deps(2)[n].wait_for_start
    /\ proc[2] = "alive"
    /\ EndFired(1)

\* C2: when B declares the start dependency :A& on a command A of the batch,
\* B is spawned only once A's started event is set.
C2_StartDependencyOrdering ==
    \A a \in Kids, b \in Kids : \A n \in DOMAIN Deps(b) :
        (/\ a # b
         /\ Deps(b)[n].key = cmds[a].key
         /\ Deps(b)[n].wait_for_start
         /\ Launched(b))
        => StartedEventSet(cmds[a].key)

\* C3: a child is launched only if every key its gate looked up was known to
\* the supervisor when it was looked up.
C3_UnknownDependencyBlocks ==
    \A b \in Kids : Launched(b) => \A n \in DOMAIN gate[b] : gate[b][n].known

\* the caller's thread is held inside run(): blocked in a dependency wait,
\* or asleep in a delay
CallerHeldAtGate ==
    \/ pc \in {"dep_delay", "start_delay"}
    \/ /\ pc = "dep_wait"
       /\ LET dep == Deps(cur)[depi] IN
            ~(IF dep.wait_for_start THEN waitForProcessStart(dep.key)
                                    ELSE waitForProcess(dep.key))

\* C4: run() returns before the gate of its command opens, so a command with
\* no prefix that comes later in the batch is never kept unlaunched by the
\* gate of an earlier command.
C4_RunReturnsBeforeGate ==
    \A j \in Kids :
        (j > cur /\ Deps(j) = <<>> /\ cmds[j].start_delay = 0 /\ ~Launched(j))
        => ~CallerHeldAtGate

\* every command of the batch is free of dependencies and start delay
Independent == \A i \in Kids : Deps(i) = <<>> /\ cmds[i].start_delay = 0
AllEnded == \A i \in Kids : thread[i] = "dead"

Step(e) == [step |-> e.step, n |-> e.n]
RECURSIVE DepSteps(_, _)
\* the gate steps of dependencies n.. of command k, in declaration order
DepSteps(k, n) ==
    IF n > Len(Deps(k)) THEN <<>>
    ELSE <<[step |-> "dep", n |-> n]>>
         \o (IF Deps(k)[n].delays # <<>> THEN <<[step |-> "dep_delay", n |-> n]>> ELSE <<>>)
         \o DepSteps(k, n + 1)

\* dependencies first, then the start delay, then the spawn
GateDepsFirst(k) ==
    DepSteps(k, 1)
    \o (IF cmds[k].start_delay > 0 THEN <<[step |-> "start_delay", n |-> 0]>> ELSE <<>>)
    \o <<[step |-> "spawn", n |-> 0]>>

IsPrefix(s, t) ==
    /\ Len(s) <= Len(t)
    /\ \A x \in DOMAIN s : Step(s[x]) = t[x]

----------------------------------------------------------------------------
(* Properties of the redirect pump, checked under SpecRedirect *)

IsPrefixOf(s, t) == Len(s) <= Len(t) /\ \A x \in DOMAIN s : s[x] = t[x]

\* C7: with A the only source and B the only consumer, what has been written
\* to B's stdin pipe is always a prefix of the chunks A's reader has read on
\* stdout: nothing lost, duplicated or reordered.
C7_RedirectFIFO == IsPrefixOf(stdin[2], seen[1][1])

----------------------------------------------------------------------------
(* Properties of termination and signal intake, checked under SpecTerm *)

Batch == 1..Len(cmds)
NoEndAction == \A i \in Batch : "end" \notin cmds[i].actions

\* C8: when terminate(graceful=True), called on a batch none of whose
\* commands carries the end action, returns to its caller, it returns True
\* and no child of the batch is alive; a child that was sent SIGKILL was
\* sent SIGTERM before it.
C8_GracefulThenForce ==
    (pc = "api_done" /\ NoEndAction) =>
        /\ term[0].res
        /\ \A i \in Batch : proc[i] = "dead"
        /\ \A i \in Batch : sent[i] \in {<<>>, <<"SIGTERM">>, <<"SIGTERM", "SIGKILL">>}

\* C9: when onSignal has finished (the supervisor exits with code 0), no
\* child launched by the supervisor is left alive.
C9_SignalIntake ==
    pc = "exit0" => \A i \in Batch : proc[i] # "alive"

\* C10: the terminate() call made when a child carrying the end action ends,
\* with no other child ignoring SIGTERM, never escalates to the force phase
\* and returns True.
C10_EndActionTerminate ==
    \A i \in Batch :
        ("end" \in cmds[i].actions /\ \A j \in Batch \ {i} : cmds[j].ignores = {})
        => /\ term[i].ph \notin {"force", "force_sleep"}
           /\ (term[i].ph = "ret" => term[i].res)

----------------------------------------------------------------------------
(* Properties of event emission, checked under SpecFormat *)

\* C11: for every child the start event is the first event emitted and the
\* end event the last one.
C11_EventOrder ==
    \A i \in Batch :
        /\ ev[i] # <<>> => ev[i][1] = "start"
        /\ \A x \in DOMAIN ev[i] : ev[i][x] = "end" => x = Len(ev[i])

\* C12: the writes at the byte sink since the last complete line all belong
\* to one line.
C12_LineAtomicity == OneLine(sink)

----------------------------------------------------------------------------
(* Properties of the process identifiers, checked under SpecPid *)

\* the process of child i exists: running, or exited and not yet reaped
Exists(i) == proc[i] \in {"alive", "dead"}

\* C13 as stated: every launched child has pgid = pid, and any two children
\* ever launched have different pgids.
C13_PgidIsolation ==
    /\ \A i \in Batch : Launched(i) => pgid[i] = pid[i] /\ pid[i] \in PidSpace
    /\ \A i \in Batch, j \in Batch : (i # j /\ Launched(i) /\ Launched(j)) => pgid[i] # pgid[j]

\* C13 as amended: every launched child has pgid = pid, and any two children
\* whose processes exist at the same time have different pgids.
C13_PgidIsolationLive ==
    /\ \A i \in Batch : Launched(i) => pgid[i] = pid[i] /\ pid[i] \in PidSpace
    /\ \A i \in Batch, j \in Batch : (i # j /\ Exists(i) /\ Exists(j)) => pgid[i] # pgid[j]

\* B and C run at the same time, C with the pid of A, which was reaped
C13_Witness ==
    /\ proc[1] = "reaped" /\ proc[2] = "alive" /\ proc[3] = "alive"
    /\ pgid[3] = pgid[1]
    /\ pgid[2] # pgid[3]

----------------------------------------------------------------------------
(* Properties of the keys, checked under SpecKeys *)

\* run() has registered child i in the command table
Registered(i) == thread[i] # "none"

\* C14: no two launched children share a key, and every launched child is
\* in the command table under its own key.
C14_KeyUniqueness ==
    /\ \A i \in Batch, j \in Batch :
          (i # j /\ Launched(i) /\ Launched(j)) => key[i] # key[j]
    /\ \A i \in Batch :
          Registered(i) => key[i] \in DOMAIN commands /\ commands[key[i]] = i

----------------------------------------------------------------------------
(* Properties of the exit status, checked under SpecExit *)

\* C15: the end event of a child that exited with status n carries n.
C15_ExitStatus ==
    \A i \in Batch : \A x \in DOMAIN status[i] : status[i][x] = cmds[i].exit

----------------------------------------------------------------------------
(* Properties of spawn failure, checked under SpecSpawn *)

\* run() has tried to spawn child i
SpawnTried(i) == cur > i \/ (cur = i /\ pc \in {"thread", "do_start", "raised"})

\* C16: run() never raises to its caller, and a child whose program does not
\* exist gets no start event and exactly one end event, of non-zero status.
C16_SpawnFailure ==
    /\ pc # "raised"
    /\ \A i \in Batch :
          (cmds[i].missing /\ SpawnTried(i)) =>
              /\ \A x \in DOMAIN ev[i] : ev[i][x] # "start"
              /\ Len(status[i]) = 1
              /\ status[i][1] # 0

----------------------------------------------------------------------------
(* Properties of the -t option, checked under SpecTimeout *)

\* C17: once Timeout seconds have gone by since startup the main thread is
\* neither held at a dependency gate nor short of its timeout in join, and
\* when the program exits no child is alive.
C17_CliTimeout ==
    /\ clock >= Timeout => ~CallerHeldAtGate
    /\ (clock >= Timeout /\ pc = "tjoin") => jel >= Timeout
    /\ pc = "done" => \A i \in Batch : proc[i] # "alive"

\* the program exits with a child alive
C17_ExitsWithChildAlive == ~(pc = "done" /\ \E i \in Batch : proc[i] = "alive")

----------------------------------------------------------------------------
(* Properties of cancellation, checked under SpecCancel *)

\* C18: a child that was at its gate (dependency wait or start delay) when a
\* global termination was initiated, by an 'end' action or a handled signal,
\* is never launched.
C18_Cancellation == \A i \in held : ~Launched(i)

----------------------------------------------------------------------------
(* Properties of parse, checked under SpecParse *)

\* C20: for a non-empty line X, parse("KEY=" + X) has the key KEY and the
\* split of X as its command, and parse(X) has the same command, no key and
\* every prefix field at its zero value.
C20_ParseTotality ==
    /\ parsed.call = "keyed" =>
          /\ parsed.result.error = "none"
          /\ parsed.result.key = KEY
          /\ parsed.result.command = splitargs(cmdline)
    /\ parsed.call = "plain" =>
          /\ parsed.result.error = "none"
          /\ parsed.result.key = None
          /\ parsed.result.color = None
          /\ parsed.result.start_delay = 0
          /\ parsed.result.dependencies = <<>>
          /\ parsed.result.redirects = None
          /\ parsed.result.actions = <<>>
          /\ parsed.result.command = splitargs(cmdline)

----------------------------------------------------------------------------
(* Properties of start-on-output, checked under SpecOutput *)

\* C19: the child declared with '>A' is not past its gate, its spawn not
\* tried, before A has written a chunk on one of its streams.
C19_StartOnOutput ==
    \A i \in Batch :
        (cmds[i] \in {Submit(OnOutputLine, [Plain("") EXCEPT !.missing = m]) : m \in BOOLEAN}
            /\ SpawnTried(i))
        => \E s \in Streams : nout[1][s] > 0

----------------------------------------------------------------------------
(* Properties of parse_delay, checked under SpecDelay *)

\* C21: parse_delay of the text made of a minutes, b seconds and c
\* milliseconds, any of the three left out, is 60 * a + b + c / 1000 seconds,
\* and a bare number N is N seconds (here in milliseconds).
C21_DelayAdditivity ==
    parsed.call = "delay" =>
        /\ \A has \in SUBSET Units :
           \A a \in IF "m" \in has THEN 0..MaxNum ELSE {0} :
              IsPrefixOf(DelayText(a, 0, 0, has \cap {"m"}), cmdline) =>
           \A b \in IF "s" \in has THEN 0..MaxNum ELSE {0} :
              IsPrefixOf(DelayText(a, b, 0, has \cap {"m", "s"}), cmdline) =>
           \A c \in IF "ms" \in has THEN 0..MaxNum ELSE {0} :
              cmdline = DelayText(a, b, c, has) =>
                  parsed.result = 60000 * a + 1000 * b + c
        /\ \A n \in 0..MaxNum : cmdline = digits(n) => parsed.result = 1000 * n

\* a duration with all three components has been parsed
C21_Witness ==
    /\ parsed.call = "delay"
    /\ cmdline = DelayText(2, 10, 5, Units)
    /\ parsed.result = 130005

----------------------------------------------------------------------------
(* Properties of parse on delay tokens, checked under SpecToken *)

RECURSIVE Components(_)
\* t is a concatenation of numbers, each with or without one of the units
Components(t) ==
    \/ t = <<>>
    \/ LET d == RunEnd(t, 1, Digit) IN
       /\ d > 1
       /\ Components(Tail_(t, d + (IF UnitAt(t, d) = "ms" THEN 2
                                   ELSE IF UnitAt(t, d) \in {"m", "s"} THEN 1 ELSE 0)))

\* the token is a duration of the grammar, blanks around it left aside
IsDuration(tok) == strip(tok) # <<>> /\ Components(strip(tok))

\* C22: when the start-delay token of the line is not a duration, parse
\* raises SyntaxError and returns no spec.
C22_StartDelayError ==
    \A tok \in Tokens :
        (parsed.call = "plain" /\ cmdline = StartDelayLine(tok) /\ ~IsDuration(tok))
        => parsed.result.error = "SyntaxError"

\* C23: in every spec that parse returns, the start delay and every delay of
\* every dependency is at least 0.
C23_NonNegativeDelays ==
    (parsed.call = "plain" /\ parsed.result.error = "none") =>
        /\ parsed.result.start_delay >= 0
        /\ \A x \in DOMAIN parsed.result.dependencies :
               \A y \in DOMAIN parsed.result.dependencies[x].delays :
                   parsed.result.dependencies[x].delays[y] >= 0

----------------------------------------------------------------------------
(* Properties of join, checked under SpecJoin *)

\* C24: a join without a timeout that has returned did so with every child
\* ended, and returned the empty list; a join with a timeout that has
\* returned did so with every child ended or with the timeout elapsed, and
\* returned exactly the children that had not ended.
C24_Join ==
    /\ joined.call = "join" => (joined.running = {} /\ joined.active = {})
    /\ joined.call = "join_timeout" =>
          /\ joined.running = {} \/ joined.elapsed >= Timeout
          /\ joined.active = joined.running

----------------------------------------------------------------------------
(* Properties of the dispatch, checked under SpecDispatch *)

C26_CaptureOnlyForConsumers ==
    \A i \in Batch : \A s \in Streams :
        (key[i] \in DOMAIN process_outputs /\ process_outputs[key[i]][s] # <<>>) =>
            \E j \in Batch : \E x \in DOMAIN cmds[j].redirects :
                cmds[j].redirects[x] = [key |-> key[i], stream |-> s]

----------------------------------------------------------------------------
(* Properties of the signalled descendants, checked under SpecDescend *)

\* C27: the pids of Command.children that a call of terminate() or of
\* propagateSignal() has signalled for a child are exactly the pids that
\* Proc.children has reported for that child during the call.
C27_DescendantsPerCall ==
    \A t \in Threads : \A i \in Batch : signalled[t][i] = probed[t][i]

----------------------------------------------------------------------------
(* Properties of a consumer with several sources, checked under SpecCross *)

\* C28: two chunks of different sources are written to a consumer's stdin in
\* the order the supervisor read them.
C28_CrossSourceOrder ==
    \A i \in Batch : \A a, b \in DOMAIN fed[i] :
        (a < b /\ <<fed[i][a].key, fed[i][a].stream>> # <<fed[i][b].key, fed[i][b].stream>>) =>
            \A x, y \in DOMAIN arrived :
                (arrived[x] = fed[i][a] /\ arrived[y] = fed[i][b]) => x < y

----------------------------------------------------------------------------
(* Properties of the end of a consumer's stdin, checked under SpecEOF *)

\* every source of consumer i has ended: its reader thread has emitted the
\* end event
SourcesEnded(i) ==
    \A x \in DOMAIN cmds[i].redirects :
        \E j \in Batch : key[j] = cmds[i].redirects[x].key /\ thread[j] = "dead"

\* C29: the write end of the stdin pipe of a running consumer is closed only
\* when all its sources have ended, and once they have ended it is eventually
\* closed, the consumer ends and join() returns.
C29_RedirectEOF ==
    /\ [](\A i \in Batch : (pump[i] = "closed" /\ proc[i] = "alive") => SourcesEnded(i))
    /\ \A i \in Kids :
          (i \in Batch /\ cmds[i].redirects # <<>> /\ pump[i] # "none" /\ SourcesEnded(i))
              ~> (pump[i] = "closed" /\ thread[i] = "dead" /\ pc = "done")

----------------------------------------------------------------------------
(* Properties of the order of the dependencies, checked under Spec *)

\* the child a dependency names has reached the state the dependency waits for
Satisfied(dep) ==
    IF dep.wait_for_start
       THEN StartedEventSet(dep.key)
       ELSE \E a \in Kids : a \in Batch /\ cmds[a].key = dep.key /\ EndFired(a)

\* the gate step e of command k is the one that follows dependency i: the
\* wait on dependency i + 1, or the spawn after the last dependency
Follows(e, i, k) ==
    \/ e.step = "dep" /\ e.n = i + 1
    \/ e.step = "spawn" /\ i = Len(Deps(k))

\* the waits and sleeps of dependency i are among the first y - 1 gate steps
\* of command k
DealtWith(k, i, y) ==
    /\ \E x \in 1..(y - 1) : gate[k][x].step = "dep" /\ gate[k][x].n = i
    /\ Deps(k)[i].delays # <<>> =>
          \E x \in 1..(y - 1) : gate[k][x].step = "dep_delay" /\ gate[k][x].n = i

\* C30: the wait on dependency i + 1 of a command, and its spawn after the
\* last dependency, come after the wait on dependency i has returned and the
\* delays of dependency i have been slept, with dependency i satisfied.
C30_DeclarationOrder ==
    \A k \in Batch : \A y \in DOMAIN gate[k] : \A i \in DOMAIN Deps(k) :
        Follows(gate[k][y], i, k) => DealtWith(k, i, y) /\ Satisfied(Deps(k)[i])

----------------------------------------------------------------------------
(* Properties of the events of a child, checked under SpecDispatch *)

\* the out and err dispatches of child i
Chunks(d) == {x \in d : x.kind \in {"out", "err"}}

\* C31: the end event of a child fires at most once, and when it has fired
\* both streams of the child are at EOF with nothing left to read; a launched
\* child was spawned, and its started event set, exactly once; once the end
\* event has fired no chunk of the child is read or dispatched.
C31_EndOnce ==
    /\ [](\A i \in Batch :
            /\ Len(status[i]) <= 1
            /\ thread[i] = "dead" => Len(status[i]) = 1
            /\ status[i] # <<>> =>
                  /\ channels[i] = {}
                  /\ \A s \in Streams : pipe[i][s] = <<>> /\ s \notin wfd[i]
            /\ Cardinality({x \in DOMAIN gate[i] : gate[i][x].step = "spawn"})
                  = IF Launched(i) THEN 1 ELSE 0
            /\ Launched(i) => StartedEventSet(key[i]))
    /\ [][\A i \in Kids :
            status[i] # <<>> =>
                /\ seen'[i] = seen[i]
                /\ Chunks(disp'[i]) = Chunks(disp[i])
                /\ status'[i] = status[i]]_vars

\* the end event of a child has fired after a chunk was read on each stream
C31_Witness ==
    \E i \in Batch :
        /\ Len(status[i]) = 1
        /\ thread[i] = "dead"
        /\ \A s \in Streams : seen[i][s] # <<>>
        /\ {"out", "err"} \subseteq {d.kind : d \in disp[i]}

----------------------------------------------------------------------------
(* Properties of a reader whose read fails, checked under SpecReadError *)

\* C32: a reader thread ends only with the end event of its child fired, both
\* streams out of its watch set and nothing left unread on a stream the child
\* has closed.
C32_ReadErrorIsEOF ==
    \A i \in Batch :
        thread[i] = "dead" =>
            /\ status[i] # <<>>
            /\ channels[i] = {}
            /\ \A s \in Streams : s \notin wfd[i] => pipe[i][s] = <<>>

----------------------------------------------------------------------------
(* Properties of the two phases of terminate, checked under SpecPhase *)

\* the step sends SIGKILL to child i
Killed(i) == sent'[i] = Append(sent[i], "SIGKILL")

\* C33: a terminate(graceful=True) call sends SIGKILL to a child only after
\* SIGTERM, from its force phase, to a child that was still active at the
\* last poll of the graceful wait, and it enters the force phase only with
\* graceful_timeout elapsed; a terminate(graceful=False) call sends no
\* SIGTERM and sends its SIGKILLs at once.
C33_TwoPhases ==
    /\ [](\A i \in Batch :
            IF prog = "api_graceful"
               THEN sent[i] \in {<<>>, <<"SIGTERM">>, <<"SIGTERM", "SIGKILL">>}
               ELSE sent[i] \in {<<>>, <<"SIGKILL">>})
    /\ [][\A i \in Kids :
            Killed(i) => /\ term[0].ph = "force"
                         /\ i \in Targets(term[0].sel)
                         /\ prog = "api_force" => term[0].el = 0 /\ clock' = clock]_vars
    /\ [][(term[0].ph = "grace" /\ term'[0].ph = "force") =>
              /\ term[0].el >= graceful_timeout
              /\ DOMAIN term[0].sel # {}]_vars
    /\ [][(term[0].ph = "grace" /\ term'[0].ph = "ret") =>
              /\ term'[0].res
              /\ \A i \in Batch : \A x \in DOMAIN sent'[i] : sent'[i][x] # "SIGKILL"]_vars

\* a graceful call has returned after it sent SIGTERM and then SIGKILL to the
\* child that ignores SIGTERM
C33_Witness ==
    /\ prog = "api_graceful"
    /\ pc = "api_done"
    /\ \E i \in Batch : sent[i] = <<"SIGTERM", "SIGKILL">>
    /\ \E i \in Batch : sent[i] = <<"SIGTERM">>

----------------------------------------------------------------------------
(* Properties of the value terminate returns, checked under SpecTerm *)

\* C34: when a terminate() call on the whole batch has returned to its API
\* caller, it has returned True if and only if no process of the batch is
\* running.
C34_ReturnValue ==
    pc = "api_done" => (term[0].res <=> \A i \in Batch : proc[i] # "alive")

\* C35: a selective terminate(c1..cn) signals only the selected commands:
\* a command that was not passed to it has received no signal
C35_SelectiveFrame ==
    \A i \in Batch : (term[0].only # {} /\ i \notin term[0].only) => sent[i] = <<>>

\* C36: a delay token of a dependency that is not a duration is dropped and
\* the dependency is kept: the line ":a+tok=a" has the one dependency on a,
\* waiting for its end, with no delays
C36_InvalidDelaySkipped ==
    \A tok \in Tokens :
        (/\ parsed.call = "plain" /\ parsed.result.error = "none"
         /\ cmdline = DepDelayLine(tok)
         /\ ~IsDuration(tok) /\ \A x \in DOMAIN tok : tok[x] # "+")
        => parsed.result.dependencies =
               <<[key |-> <<"a">>, wait_for_start |-> FALSE, delays |-> <<>>]>>

\* C37: a join with an explicit selection returns only commands of that
\* selection, and when none of the given commands had an active entry in the
\* table at the call it returns the empty list with no time elapsed
C37_JoinSelection ==
    joined.call = "join_some" =>
        /\ \A k \in joined.active : commands[k] \in joined.only
        /\ joined.idle => (joined.active = {} /\ joined.elapsed = 0)

----------------------------------------------------------------------------
(* Properties of two consumers of one source, checked under SpecShared *)

\* C38: every chunk read from a source stream reaches every consumer that
\* declares a redirect from it, in source order: as long as the pump of a
\* consumer runs, a chunk the supervisor has read from the source has been
\* written to the consumer's stdin, or is in the hands of its pump, or is
\* still in the capture buffer; and what has been written is in source order
C38_EveryConsumer ==
    \A i \in Batch : \A x \in DOMAIN cmds[i].redirects :
        LET src == cmds[i].redirects[x] IN
        \A j \in Batch : key[j] = src.key =>
            /\ pump[i] \in {"check", "source", "clear"} =>
                  \A y \in DOMAIN seen[j][src.stream] :
                      LET n == seen[j][src.stream][y] IN
                      \/ \E z \in DOMAIN fed[i] : fed[i][z] = Chunk(src.key, src.stream, n)
                      \/ \E z \in DOMAIN pdata[i] : pdata[i][z] = n
                      \/ \E z \in DOMAIN process_outputs[src.key][src.stream] :
                             process_outputs[src.key][src.stream][z] = n
            /\ \A a, b \in DOMAIN fed[i] : a < b => fed[i][a].n < fed[i][b].n

----------------------------------------------------------------------------
(* Properties of the callbacks of the module's run(), checked under SpecDispatch *)

\* C39: the callbacks passed to the module's run() observe every event of
\* their kind of that command: no event of a kind the caller passed a
\* callback for is dispatched to the formatter
C39_CallbacksSeeAll ==
    \A i \in Batch : \A d \in disp[i] :
        d.kind \in cmds[i].on => (d.callback /\ ~d.formatter)

----------------------------------------------------------------------------
(* Properties of the pids terminate() signals, checked under SpecSelect *)

\* the commands a step of the terminate() call of thread t sends signals for
Signalling(t) ==
    IF term[t].ph = "begin" THEN Targets(Selection(t))
    ELSE IF term[t].ph = "force" THEN Targets(term[t].sel)
    ELSE {}

\* C40: terminate() sends no signal to the pid of a child whose end event has
\* fired and whose process has been reaped: no process that holds the pid of
\* such a child receives a signal from a step that signals for that child
C40_NoSignalToReaped ==
    [][\A t \in Threads : \A i \in Signalling(t) :
          (status[i] # <<>> /\ proc[i] = "reaped") =>
              \A j \in Batch : pid[j] = pid[i] => sent'[j] = sent[j]]_vars

====
